---- MODULE Spec2Model ----
(***************************************************************************)
(* Attendance verification protocol of attendance-cist.                    *)
(*                                                                         *)
(* Presenter side (FacultyPortal): the session lifecycle, the location     *)
(* refresh interval and the drift check against the anchor.                *)
(* Attendee side (AttendanceDashboard): handleQrScan, handleVerification   *)
(* and the confidence-gated decision with one retry.                       *)
(*                                                                         *)
(* Every asynchronous handler is split at its awaits: the part before the  *)
(* await is one action, the continuation after it is another, and the      *)
(* values a continuation reads from its closure are stored with the        *)
(* pending call.  React state updates of one continuation are applied      *)
(* together, followed by the effects whose dependencies changed.           *)
(*                                                                         *)
(* Units: metres along one meridian for positions, milliseconds for the    *)
(* clock, hundredths for the matcher's confidence.                         *)
(***************************************************************************)
EXTENDS Integers, Sequences, FiniteSets, TLC

VARIABLES
    now,                    \* Date.now(), ms since Sunday 00:00 local time
    \* ---- FacultyPortal / AppProvider ----
    activeSession,          \* AppProvider state: NULL or [location, timestamp]
    initialSessionLocation, \* FacultyPortal state: the anchor, or NULL
    error,                  \* FacultyPortal state: message shown to the presenter
    showFullScreenQR,       \* FacultyPortal state
    facultyIsLoading,       \* FacultyPortal state isLoading
    startPending,           \* startSession is awaiting getCurrentLocation
    facultyMounted,         \* Main renders FacultyPortal
    orphanStarts,           \* startSession calls of unmounted FacultyPortals
    armedCountdowns,        \* per display: the countdown intervals armed
    countdownIntervalRef,   \* per display: the ref names an armed interval
    locationRefreshInterval,\* NULL or the armed interval [anchor, due]
    refreshPending,         \* interval callbacks awaiting getCurrentLocation
    \* ---- AttendanceDashboard (StudentPortal) ----
    isLoading,              \* AttendanceDashboard state
    status,                 \* AttendanceDashboard state: the message shown
    showFaceCapture,        \* AttendanceDashboard state
    showScanner,            \* AttendanceDashboard state
    scannedSession,         \* AttendanceDashboard state: NULL or the accepted token
    retryAttempted,         \* AttendanceDashboard state
    showApiKeyInput,        \* AttendanceDashboard state
    locationPending,        \* handleQrScan calls awaiting getCurrentLocation
    verifyPending,          \* handleVerification calls awaiting verifyFace
    recordPending,          \* handleVerification calls awaiting addAttendanceRecord
    attendance,             \* the 'attendance' collection of the store
    timetable,              \* the timetable prop of AttendanceDashboard
    \* ---- history of the scan attempts (not program state) ----
    scans,                  \* number of QR scans handled so far
    attempts,               \* per scan: what was checked, called and decided
    captureFor,             \* the scan the displayed FaceCapture belongs to, or 0
    apiKeyFor,              \* the scan the displayed ApiKeyInput belongs to, or 0
    \* ---- schedule status (TimetableManager, TimetableView) ----
    scheduleStatus,         \* component state: [currentClassId, nextClassId]
    statusAt,               \* the instant getScheduleStatus was last run at, or -1
    resolvedClass,          \* the entry handleVerification last resolved, or NULL
    resolvedAt,             \* the instant of that lookup, or -1
    \* ---- attendance ledger operations of AppProvider ----
    purge,                  \* the deleteAllAttendanceRecords call and its batches
    deleteMany,             \* the deleteMultipleAttendanceRecords call
    \* ---- TimetableManager of each presenter and the 'timetable' collection ----
    timetableDocs,          \* the documents of the 'timetable' collection
    managerView,            \* per presenter: the timetable of the last snapshot
    managerPending,         \* per presenter: NULL or the write handleSubmit awaits
    managerError,           \* per presenter: TimetableManager state error
    \* ---- ManualAttendance of the presenter ----
    manualPending,          \* markManualAttendance calls awaiting addAttendanceRecord
    markRejected,           \* a markManualAttendance promise rejected, unhandled
    \* ---- AppProvider: auth state listener and data listeners ----
    currentUser,            \* AppProvider state: the uid of the user, or NULL_ID
    userRole,               \* AppProvider state: "student", "faculty" or NULL_ID
    currentStudent,         \* AppProvider state: the uid of the profile, or NULL_ID
    currentFaculty,         \* AppProvider state: the uid of the profile, or NULL_ID
    loadingAuth,            \* AppProvider state
    errors,                 \* systemError, studentsError, timetableError, attendanceError
    feedData,               \* students, timetable, attendance of the context
    listeners,              \* the onSnapshot listeners subscribed
    authCallbacks           \* auth callbacks awaiting a getDoc

facultyVars == <<activeSession, initialSessionLocation, error, showFullScreenQR,
                 facultyIsLoading, startPending, locationRefreshInterval,
                 refreshPending, facultyMounted, orphanStarts, armedCountdowns,
                 countdownIntervalRef>>

studentVars == <<isLoading, status, showFaceCapture, showScanner, scannedSession,
                 retryAttempted, showApiKeyInput, locationPending, verifyPending,
                 recordPending, attendance, timetable, scans, attempts, captureFor, apiKeyFor>>

scheduleVars == <<scheduleStatus, statusAt, resolvedClass, resolvedAt>>

ledgerVars == <<purge, deleteMany>>

managerVars == <<timetableDocs, managerView, managerPending, managerError>>

markVars == <<manualPending, markRejected>>

appVars == <<currentUser, userRole, currentStudent, currentFaculty, loadingAuth,
             errors, feedData, listeners, authCallbacks>>

vars == <<now, facultyVars, studentVars, scheduleVars, ledgerVars, managerVars,
          markVars, appVars>>

\* what the actions of one component leave alone
nonFacultyVars == <<studentVars, scheduleVars, ledgerVars, managerVars, markVars,
                    appVars>>

nonStudentVars == <<now, facultyVars, scheduleVars, ledgerVars, managerVars,
                    markVars, appVars>>

nonScheduleVars == <<facultyVars, studentVars, ledgerVars, managerVars, markVars,
                     appVars>>

\* all but the ledger operations and the 'attendance' collection
nonLedgerVars == <<now, facultyVars, scheduleVars, managerVars, isLoading, status,
                   showFaceCapture, showScanner, scannedSession, retryAttempted,
                   showApiKeyInput, locationPending, verifyPending, recordPending,
                   timetable, scans, attempts, captureFor, apiKeyFor, markVars,
                   appVars>>

nonManagerVars == <<now, facultyVars, studentVars, scheduleVars, ledgerVars,
                    markVars, appVars>>

\* all but the pending manual marks and the 'attendance' collection
nonMarkVars == <<now, facultyVars, scheduleVars, ledgerVars, managerVars,
                 isLoading, status, showFaceCapture, showScanner, scannedSession,
                 retryAttempted, showApiKeyInput, locationPending, verifyPending,
                 recordPending, timetable, scans, attempts, captureFor, apiKeyFor,
                 appVars>>

nonAppVars == <<now, facultyVars, studentVars, scheduleVars, ledgerVars,
                managerVars, markVars>>

----------------------------------------------------------------------------
(* Program constants *)

MAX_DISTANCE_METERS == 50
QR_REFRESH_INTERVAL_MS == 10000
MAX_FACULTY_MOVEMENT_METERS == 100
RETRY_CONFIDENCE_THRESHOLD == 75
DEFAULT_CLASS_DURATION_MINS == 45
CONFIDENCE_THRESHOLD == 90
QR_GRACE_MS == 5000

(* Bounds of the model *)

MaxNow == 30000            \* the presenter's clock stops here
MaxRefreshPending == 2     \* interval callbacks in flight at once
MaxOrphanStarts == 1       \* startSession calls outliving their FacultyPortal
MaxScans == 2              \* QR scans handled in one run

NULL == [null |-> TRUE]

Abs(x) == IF x < 0 THEN -x ELSE x

Loc(x) == [lat |-> x, lon |-> 0]

\* positions the presenter can be sampled at
FacultyPositions == {Loc(0), Loc(60), Loc(100), Loc(101)}

\* distance in metres between two coordinates on the same meridian
calculateDistance(a, b) == Abs(a.lat - b.lat)

----------------------------------------------------------------------------
(* FacultyPortal *)

\* the drift test of the interval callback
DriftExceeded_ge(distanceFromStart) ==
    distanceFromStart >= MAX_FACULTY_MOVEMENT_METERS

DriftExceeded(distanceFromStart) ==
    distanceFromStart > MAX_FACULTY_MOVEMENT_METERS

\* the location refresh effect, run after a render in which activeSession or
\* initialSessionLocation changed: the cleanup clears the previous interval,
\* the body arms a new one unless either dependency is null
RefreshEffect(session, anchor, t) ==
    IF session = NULL \/ anchor = NULL
    THEN NULL
    ELSE [anchor |-> anchor, due |-> t + QR_REFRESH_INTERVAL_MS]

\* the two countdown displays: the dashboard of FacultyPortal and the
\* QRCodeGenerator inside FullScreenQRCode
Displays == {"dashboard", "fullscreen"}

\* whether the component that owns the countdown of display d is mounted
Displayed(d, mounted, session, fullScreen) ==
    IF d = "dashboard"
    THEN mounted
    ELSE mounted /\ fullScreen /\ session # NULL

\* whether the body of the countdown effect of display d arms an interval:
\* FacultyPortal arms only under if (activeSession), QRCodeGenerator always
Arms(d, session) == d = "fullscreen" \/ session # NULL

\* the armed countdown intervals of one display after its effect ran:
\* clearInterval(countdownIntervalRef.current), then window.setInterval
\* when the body arms
ArmedAfter_keep(armed, refLive, arm) ==
    armed + (IF arm THEN 1 ELSE 0)

ArmedAfter(armed, refLive, arm) ==
    (IF refLive THEN armed - 1 ELSE armed) + (IF arm THEN 1 ELSE 0)

\* the countdown effects after a render: an effect runs when its component
\* mounts or its session dependency changes, and only its cleanup runs when
\* the component unmounts
CountdownEffects(mounted, session, fullScreen) ==
    LET was(d) == Displayed(d, facultyMounted, activeSession, showFullScreenQR)
        is(d) == Displayed(d, mounted, session, fullScreen)
        rerun(d) == is(d) /\ (~was(d) \/ session # activeSession)
        torn(d) == was(d) /\ ~is(d)
    IN  /\ armedCountdowns' =
               [d \in Displays |->
                  IF rerun(d)
                  THEN ArmedAfter(armedCountdowns[d], countdownIntervalRef[d],
                                  Arms(d, session))
                  ELSE IF torn(d)
                       THEN ArmedAfter(armedCountdowns[d],
                                       countdownIntervalRef[d], FALSE)
                       ELSE armedCountdowns[d]]
        /\ countdownIntervalRef' =
               [d \in Displays |->
                  IF rerun(d) THEN Arms(d, session)
                  ELSE IF torn(d) THEN FALSE
                       ELSE countdownIntervalRef[d]]

FacultyMounted ==
    /\ facultyMounted = TRUE
    /\ activeSession = NULL
    /\ initialSessionLocation = NULL
    /\ error = "none"
    /\ showFullScreenQR = FALSE
    /\ facultyIsLoading = FALSE
    /\ startPending = FALSE
    /\ orphanStarts = 0
    /\ locationRefreshInterval = NULL
    /\ refreshPending = <<>>
    /\ armedCountdowns = [d \in Displays |-> 0]
    /\ countdownIntervalRef = [d \in Displays |-> FALSE]

\* the Start Session button: rendered when there is no session, disabled
\* while isLoading; runs startSession up to its await
StartSession ==
    /\ facultyMounted
    /\ activeSession = NULL
    /\ ~facultyIsLoading
    /\ facultyIsLoading' = TRUE
    /\ error' = "none"
    /\ startPending' = TRUE
    /\ UNCHANGED <<now, facultyMounted, activeSession, initialSessionLocation,
                   showFullScreenQR, orphanStarts, locationRefreshInterval,
                   refreshPending, armedCountdowns, countdownIntervalRef>>
    /\ UNCHANGED nonFacultyVars

\* startSession after getCurrentLocation resolved with location
StartSessionLocated(location) ==
    /\ startPending
    /\ startPending' = FALSE
    /\ activeSession' = [location |-> location, timestamp |-> now]
    /\ initialSessionLocation' = location
    /\ showFullScreenQR' = TRUE
    /\ facultyIsLoading' = FALSE
    /\ locationRefreshInterval' = RefreshEffect(activeSession', initialSessionLocation', now)
    /\ UNCHANGED <<now, facultyMounted, error, orphanStarts, refreshPending>>
    /\ CountdownEffects(facultyMounted', activeSession', showFullScreenQR')
    /\ UNCHANGED nonFacultyVars

\* startSession after getCurrentLocation rejected
StartSessionFailed ==
    /\ startPending
    /\ startPending' = FALSE
    /\ error' = "location"
    /\ activeSession' = NULL
    /\ initialSessionLocation' = NULL
    /\ facultyIsLoading' = FALSE
    /\ locationRefreshInterval' = NULL
    /\ UNCHANGED <<now, facultyMounted, showFullScreenQR, orphanStarts,
                   refreshPending>>
    /\ CountdownEffects(facultyMounted', activeSession', showFullScreenQR')
    /\ UNCHANGED nonFacultyVars

\* a startSession call of a FacultyPortal that has been unmounted since,
\* after getCurrentLocation resolved: only setActiveSession, the setter of
\* AppProvider, still has an effect
OrphanStartLocated(location) ==
    /\ orphanStarts > 0
    /\ orphanStarts' = orphanStarts - 1
    /\ activeSession' = [location |-> location, timestamp |-> now]
    /\ locationRefreshInterval' =
           IF facultyMounted
           THEN RefreshEffect(activeSession', initialSessionLocation, now)
           ELSE NULL
    /\ UNCHANGED <<now, facultyMounted, initialSessionLocation, error,
                   showFullScreenQR, facultyIsLoading, startPending,
                   refreshPending>>
    /\ CountdownEffects(facultyMounted', activeSession', showFullScreenQR')
    /\ UNCHANGED nonFacultyVars

\* the same call after getCurrentLocation rejected
OrphanStartFailed ==
    /\ orphanStarts > 0
    /\ orphanStarts' = orphanStarts - 1
    /\ activeSession' = NULL
    /\ locationRefreshInterval' = NULL
    /\ UNCHANGED <<now, facultyMounted, initialSessionLocation, error,
                   showFullScreenQR, facultyIsLoading, startPending,
                   refreshPending>>
    /\ CountdownEffects(facultyMounted', activeSession', showFullScreenQR')
    /\ UNCHANGED nonFacultyVars

\* stopSession, from the Stop Session button
StopSession ==
    /\ facultyMounted
    /\ activeSession # NULL
    /\ activeSession' = NULL
    /\ initialSessionLocation' = NULL
    /\ showFullScreenQR' = FALSE
    /\ locationRefreshInterval' = NULL
    /\ UNCHANGED <<now, facultyMounted, error, facultyIsLoading, startPending,
                   orphanStarts, refreshPending>>
    /\ CountdownEffects(facultyMounted', activeSession', showFullScreenQR')
    /\ UNCHANGED nonFacultyVars

\* the Show QR Code button of the dashboard, rendered while a session is
\* active
ShowQRCode ==
    /\ facultyMounted
    /\ activeSession # NULL
    /\ ~showFullScreenQR
    /\ showFullScreenQR' = TRUE
    /\ UNCHANGED <<now, facultyMounted, activeSession, initialSessionLocation,
                   error, facultyIsLoading, startPending, orphanStarts,
                   locationRefreshInterval, refreshPending>>
    /\ CountdownEffects(facultyMounted', activeSession', showFullScreenQR')
    /\ UNCHANGED nonFacultyVars

\* onClose of FullScreenQRCode
CloseQRCode ==
    /\ facultyMounted
    /\ activeSession # NULL
    /\ showFullScreenQR
    /\ showFullScreenQR' = FALSE
    /\ UNCHANGED <<now, facultyMounted, activeSession, initialSessionLocation,
                   error, facultyIsLoading, startPending, orphanStarts,
                   locationRefreshInterval, refreshPending>>
    /\ CountdownEffects(facultyMounted', activeSession', showFullScreenQR')
    /\ UNCHANGED nonFacultyVars

\* the armed interval fires: the callback starts and awaits getCurrentLocation;
\* initialSessionLocation is the value the effect closed over
RefreshTick ==
    /\ locationRefreshInterval # NULL
    /\ now >= locationRefreshInterval.due
    /\ Len(refreshPending) < MaxRefreshPending
    /\ refreshPending' = Append(refreshPending,
                                [anchor |-> locationRefreshInterval.anchor,
                                 orphan |-> FALSE])
    /\ locationRefreshInterval' =
           [locationRefreshInterval EXCEPT !.due = @ + QR_REFRESH_INTERVAL_MS]
    /\ UNCHANGED <<now, facultyMounted, activeSession, initialSessionLocation,
                   error, showFullScreenQR, facultyIsLoading, startPending,
                   orphanStarts, armedCountdowns, countdownIntervalRef>>
    /\ UNCHANGED nonFacultyVars

Remove(s, i) == SubSeq(s, 1, i - 1) \o SubSeq(s, i + 1, Len(s))

\* the interval callback after getCurrentLocation resolved with newLocation;
\* the setters of an unmounted FacultyPortal have no effect, setActiveSession
\* belongs to AppProvider and has
RefreshLocated(i, newLocation) ==
    /\ i \in 1..Len(refreshPending)
    /\ refreshPending' = Remove(refreshPending, i)
    /\ LET distanceFromStart ==
               calculateDistance(newLocation, refreshPending[i].anchor)
           orphan == refreshPending[i].orphan
       IN  IF DriftExceeded(distanceFromStart)
           THEN /\ activeSession' = NULL
                /\ initialSessionLocation' =
                       IF orphan THEN initialSessionLocation ELSE NULL
                /\ showFullScreenQR' =
                       IF orphan THEN showFullScreenQR ELSE FALSE
                /\ error' = IF orphan THEN error ELSE "moved"
                /\ locationRefreshInterval' = NULL
           ELSE /\ activeSession' = [location |-> newLocation, timestamp |-> now]
                /\ locationRefreshInterval' =
                       IF facultyMounted
                       THEN RefreshEffect(activeSession', initialSessionLocation, now)
                       ELSE NULL
                /\ UNCHANGED <<initialSessionLocation, showFullScreenQR, error>>
    /\ UNCHANGED <<now, facultyMounted, facultyIsLoading, startPending,
                   orphanStarts>>
    /\ CountdownEffects(facultyMounted', activeSession', showFullScreenQR')
    /\ UNCHANGED nonFacultyVars

\* the interval callback after getCurrentLocation rejected
RefreshFailed_stops(i) ==
    /\ i \in 1..Len(refreshPending)
    /\ refreshPending' = Remove(refreshPending, i)
    /\ error' = IF refreshPending[i].orphan THEN error ELSE "update"
    /\ activeSession' = NULL
    /\ locationRefreshInterval' = NULL
    /\ UNCHANGED <<now, facultyMounted, initialSessionLocation,
                   showFullScreenQR, facultyIsLoading, startPending,
                   orphanStarts>>
    /\ CountdownEffects(facultyMounted', activeSession', showFullScreenQR')
    /\ UNCHANGED nonFacultyVars

RefreshFailed(i) ==
    /\ i \in 1..Len(refreshPending)
    /\ refreshPending' = Remove(refreshPending, i)
    /\ error' = IF refreshPending[i].orphan THEN error ELSE "update"
    /\ UNCHANGED <<now, facultyMounted, activeSession, initialSessionLocation,
                   showFullScreenQR, facultyIsLoading, startPending,
                   orphanStarts, locationRefreshInterval, armedCountdowns,
                   countdownIntervalRef>>
    /\ UNCHANGED nonFacultyVars

\* logout: signOut makes Main render Auth in place of FacultyPortal, whose
\* state is dropped and whose effect cleanups run; activeSession stays in
\* AppProvider and the calls in flight stay in flight
logout ==
    /\ facultyMounted
    /\ startPending => orphanStarts < MaxOrphanStarts
    /\ facultyMounted' = FALSE
    /\ initialSessionLocation' = NULL
    /\ error' = "none"
    /\ showFullScreenQR' = FALSE
    /\ facultyIsLoading' = FALSE
    /\ startPending' = FALSE
    /\ orphanStarts' = IF startPending THEN orphanStarts + 1 ELSE orphanStarts
    /\ refreshPending' =
           IF refreshPending = <<>>
           THEN <<>>
           ELSE [k \in 1..Len(refreshPending) |->
                   [refreshPending[k] EXCEPT !.orphan = TRUE]]
    /\ locationRefreshInterval' = NULL
    /\ UNCHANGED <<now, activeSession>>
    /\ CountdownEffects(facultyMounted', activeSession', showFullScreenQR')
    /\ UNCHANGED nonFacultyVars

\* the presenter signs in again: Main renders a new FacultyPortal
FacultyPortalMounts ==
    /\ ~facultyMounted
    /\ facultyMounted' = TRUE
    /\ UNCHANGED <<now, activeSession, initialSessionLocation, error,
                   showFullScreenQR, facultyIsLoading, startPending,
                   orphanStarts, locationRefreshInterval, refreshPending>>
    /\ CountdownEffects(facultyMounted', activeSession', showFullScreenQR')
    /\ UNCHANGED nonFacultyVars

\* time passes on the presenter's device
FacultyClock ==
    /\ \E d \in {1000, QR_REFRESH_INTERVAL_MS} :
          /\ now + d <= MaxNow
          /\ now' = now + d
    /\ UNCHANGED <<facultyVars, nonFacultyVars>>

\* one FacultyPortal from its mount on, observed every second
FacultyNext ==
    \/ StartSession
    \/ \E l \in FacultyPositions : StartSessionLocated(l)
    \/ StartSessionFailed
    \/ StopSession
    \/ RefreshTick
    \/ \E i \in 1..MaxRefreshPending, l \in FacultyPositions : RefreshLocated(i, l)
    \/ \E i \in 1..MaxRefreshPending : RefreshFailed(i)
    \/ FacultyClock

\* time passes, one refresh period at a time
PortalClock ==
    /\ now + QR_REFRESH_INTERVAL_MS <= MaxNow
    /\ now' = now + QR_REFRESH_INTERVAL_MS
    /\ UNCHANGED <<facultyVars, nonFacultyVars>>

\* the presenter signing out and in again and opening and closing the
\* full-screen code as well, observed every refresh period
PortalNext ==
    \/ StartSession
    \/ \E l \in FacultyPositions : StartSessionLocated(l)
    \/ StartSessionFailed
    \/ \E l \in FacultyPositions : OrphanStartLocated(l)
    \/ OrphanStartFailed
    \/ StopSession
    \/ ShowQRCode
    \/ CloseQRCode
    \/ RefreshTick
    \/ \E i \in 1..MaxRefreshPending, l \in FacultyPositions : RefreshLocated(i, l)
    \/ \E i \in 1..MaxRefreshPending : RefreshFailed(i)
    \/ logout
    \/ FacultyPortalMounts
    \/ PortalClock

----------------------------------------------------------------------------
(* AttendanceDashboard *)

DAYS_OF_WEEK == <<"Sunday", "Monday", "Tuesday", "Wednesday", "Thursday",
                  "Friday", "Saturday">>

MsPerMinute == 60 * 1000
MsPerDay == 24 * 60 * MsPerMinute

\* Date accessors on the clock
getDay(t) == (t \div MsPerDay) % 7
getHours(t) == (t \div (60 * MsPerMinute)) % 24
getMinutes(t) == (t \div MsPerMinute) % 60

\* the instant of weekday d (0 = Sunday) at h:m
At(d, h, m) == d * MsPerDay + (h * 60 + m) * MsPerMinute

\* the instants at which a run of the dashboard is observed: during the
\* class of StudentTimetable and after it
StudentTimes == {At(1, 9, 0), At(1, 9, 46)}

\* the timetable handed to the dashboard
StudentTimetable ==
    << [id |-> "e1", day |-> "Monday", time |-> [h |-> 9, m |-> 0],
        duration |-> 0, subject |-> "PA"] >>

\* the decoded QR strings a scan can deliver at instant t: text that is not
\* JSON, and JSON with or without location and timestamp; a timestamp of 0
\* stands for every falsy timestamp (absent, null, 0)
TokenAges == {QR_REFRESH_INTERVAL_MS + QR_GRACE_MS,
              QR_REFRESH_INTERVAL_MS + QR_GRACE_MS + 1}

QrData(t) ==
    {[parses |-> FALSE, location |-> NULL, timestamp |-> 0],
     [parses |-> TRUE, location |-> NULL, timestamp |-> t],
     [parses |-> TRUE, location |-> Loc(0), timestamp |-> 0]}
    \cup {[parses |-> TRUE, location |-> Loc(0), timestamp |-> t - a] :
             a \in TokenAges}

\* the tokens a scan can deliver at instant t when the presenter's clock is
\* not the attendee's: one issued a minute after t, one issued too long ago
SkewedQrData(t) ==
    {[parses |-> TRUE, location |-> Loc(0),
      timestamp |-> t + 4 * (QR_REFRESH_INTERVAL_MS + QR_GRACE_MS)],
     [parses |-> TRUE, location |-> Loc(0),
      timestamp |-> t - (QR_REFRESH_INTERVAL_MS + QR_GRACE_MS + 1)]}

\* positions the attendee can be sampled at
StudentPositions == {Loc(50), Loc(51)}

\* results of the matcher: match and confidence in hundredths
Confidences == {74, 75, 89, 90, 99}

\* if (!sessionData.location || !sessionData.timestamp)
FieldsMissing(sessionData) ==
    sessionData.location = NULL \/ sessionData.timestamp = 0

\* if (Date.now() - sessionData.timestamp > QR_REFRESH_INTERVAL_MS + 5000)
Expired_ge(t, timestamp) == t - timestamp >= QR_REFRESH_INTERVAL_MS + QR_GRACE_MS

Expired_swapped(t, timestamp) == timestamp - t > QR_REFRESH_INTERVAL_MS + QR_GRACE_MS

Expired_abs(t, timestamp) ==
    Abs(t - timestamp) > QR_REFRESH_INTERVAL_MS + QR_GRACE_MS

Expired(t, timestamp) == t - timestamp > QR_REFRESH_INTERVAL_MS + QR_GRACE_MS

\* if (distance > MAX_DISTANCE_METERS)
TooFar_ge(distance) == distance >= MAX_DISTANCE_METERS

TooFar(distance) == distance > MAX_DISTANCE_METERS

\* the three cases of handleVerification on a matcher result
Decision_gt(match, confidence, retryUsed) ==
    IF match /\ confidence > CONFIDENCE_THRESHOLD THEN "accept"
    ELSE IF match /\ confidence >= RETRY_CONFIDENCE_THRESHOLD /\ ~retryUsed
         THEN "retry"
         ELSE "reject"

Decision(match, confidence, retryUsed) ==
    IF match /\ confidence >= CONFIDENCE_THRESHOLD THEN "accept"
    ELSE IF match /\ confidence >= RETRY_CONFIDENCE_THRESHOLD /\ ~retryUsed
         THEN "retry"
         ELSE "reject"

\* the message of a rejection
RejectMessage_swapped(match) ==
    IF match THEN "Error: Face not recognized"
             ELSE "Error: Face match confidence was too low"

RejectMessage(match) ==
    IF ~match THEN "Error: Face not recognized"
              ELSE "Error: Face match confidence was too low"

\* minutes from midnight of an HH:MM time
TimeValue(time) == time.h * 60 + time.m

\* timetable.find(...) of handleVerification at instant t: the first entry of
\* today with classTime <= nowTime <= endTime, or NULL
CurrentClass(tt, t) ==
    LET currentDay == DAYS_OF_WEEK[getDay(t) + 1]
        nowTime == getHours(t) * 60 + getMinutes(t)
        InClass(entry) ==
            LET classTime == TimeValue(entry.time)
                classDuration == IF entry.duration # 0 THEN entry.duration
                                 ELSE DEFAULT_CLASS_DURATION_MINS
                endTime == classTime + classDuration
            IN  entry.day = currentDay /\ nowTime >= classTime /\ nowTime <= endTime
        hits == {k \in 1..Len(tt) : InClass(tt[k])}
    IN  IF hits = {} THEN NULL
        ELSE tt[CHOOSE k \in hits : \A j \in hits : k <= j]

\* the number of addAttendanceRecord calls the continuation makes on a
\* matcher result: one in the accept case, after the throw for a missing class
RecordCalls_beforeClassCheck(decision, currentClass) ==
    IF decision = "accept" THEN 1 ELSE 0

RecordCalls(decision, currentClass) ==
    IF decision = "accept" /\ currentClass # NULL THEN 1 ELSE 0

\* what is remembered of a scan: whether its token was well-formed and fresh
\* (and its age if so), whether the attendee was within the limit (and the
\* distance if so), whether it reached FaceCapture, how often it called
\* addAttendanceRecord and was offered a retry, whether the scanner or
\* FaceCapture was closed while its location sample or face match is pending,
\* and how it ended: "rejected" by a token or location check, "failed" at the
\* matcher, the decision or the timetable, "storeerror", "cancelled" or
\* "success"
NoAttempt ==
    [tokenOk |-> FALSE, age |-> 0, near |-> FALSE, distance |-> 0,
     faceCapture |-> FALSE, recordCalls |-> 0, retryOffers |-> 0,
     closed |-> FALSE, outcome |-> "none"]

\* the scans that have a location sample or a face match pending
PendingAttempts ==
    {locationPending[k].attempt : k \in 1..Len(locationPending)}
        \cup {verifyPending[k].attempt : k \in 1..Len(verifyPending)}

\* the history after the scanner or FaceCapture was closed
Closed(history) ==
    [a \in DOMAIN history |->
        IF a \in PendingAttempts THEN [history[a] EXCEPT !.closed = TRUE]
        ELSE history[a]]

StudentMountedWith(tt, docs) ==
    /\ isLoading = FALSE
    /\ status = ""
    /\ showFaceCapture = FALSE
    /\ showScanner = FALSE
    /\ scannedSession = NULL
    /\ retryAttempted = FALSE
    /\ showApiKeyInput = FALSE
    /\ locationPending = <<>>
    /\ verifyPending = <<>>
    /\ recordPending = <<>>
    /\ attendance = docs
    /\ timetable = tt
    /\ scans = 0
    /\ attempts = [a \in 1..MaxScans |-> NoAttempt]
    /\ captureFor = 0
    /\ apiKeyFor = 0

StudentMounted == StudentMountedWith(StudentTimetable, <<>>)

\* the Scan QR Code button, reachable when no modal covers the dashboard
ScanButton ==
    /\ ~showScanner /\ ~showFaceCapture /\ ~showApiKeyInput
    /\ scans < MaxScans
    /\ showScanner' = TRUE
    /\ status' = ""
    /\ UNCHANGED <<isLoading, showFaceCapture, scannedSession, retryAttempted,
                   showApiKeyInput, locationPending, verifyPending, recordPending,
                   attendance, timetable, scans, attempts, captureFor, apiKeyFor>>
    /\ UNCHANGED nonStudentVars

\* the Cancel button of QRCodeScanner
CloseScanner ==
    /\ showScanner
    /\ showScanner' = FALSE
    /\ attempts' = Closed(attempts)
    /\ UNCHANGED <<isLoading, status, showFaceCapture, scannedSession,
                   retryAttempted, showApiKeyInput, locationPending, verifyPending,
                   recordPending, attendance, timetable, scans,
                   captureFor, apiKeyFor>>
    /\ UNCHANGED nonStudentVars

\* handleQrScan up to its await, or to its catch when the token is rejected
handleQrScan(data) ==
    /\ showScanner
    /\ scans < MaxScans
    /\ LET a == scans + 1
           malformed == ~data.parses \/ FieldsMissing(data)
           expired == ~malformed /\ Expired(now, data.timestamp)
           tokenOk == /\ data.parses
                      /\ data.location # NULL
                      /\ data.timestamp # 0
                      /\ now - data.timestamp <= QR_REFRESH_INTERVAL_MS + QR_GRACE_MS
       IN  /\ scans' = a
           /\ showScanner' = FALSE
           /\ retryAttempted' = FALSE
           /\ attempts' = [attempts EXCEPT ![a] =
                  [@ EXCEPT !.tokenOk = tokenOk,
                            !.age = IF tokenOk THEN now - data.timestamp ELSE 0,
                            !.outcome = IF malformed \/ expired THEN "rejected"
                                        ELSE "none"]]
           /\ IF malformed \/ expired
              THEN /\ status' = IF ~data.parses THEN "Error: not JSON"
                                ELSE IF malformed THEN "Error: Invalid QR code data"
                                ELSE "Error: QR code has expired"
                   /\ isLoading' = FALSE
                   /\ UNCHANGED locationPending
              ELSE /\ status' = "QR Code accepted. Verifying your location..."
                   /\ isLoading' = TRUE
                   /\ locationPending' = Append(locationPending,
                          [sessionData |-> [location |-> data.location,
                                            timestamp |-> data.timestamp],
                           attempt |-> a])
    /\ UNCHANGED <<showFaceCapture, scannedSession, showApiKeyInput, verifyPending,
                   recordPending, attendance, timetable, captureFor, apiKeyFor>>
    /\ UNCHANGED nonStudentVars

\* handleQrScan after getCurrentLocation resolved with studentLocation
QrLocated(i, studentLocation) ==
    /\ i \in 1..Len(locationPending)
    /\ LET call == locationPending[i]
           a == call.attempt
           distance == calculateDistance(studentLocation, call.sessionData.location)
           near == distance <= MAX_DISTANCE_METERS
       IN  /\ locationPending' = Remove(locationPending, i)
           /\ IF TooFar(distance)
              THEN /\ status' = "Error: You are too far away"
                   /\ isLoading' = FALSE
                   /\ attempts' = [attempts EXCEPT ![a] =
                          [@ EXCEPT !.closed = FALSE, !.near = near,
                                    !.distance = IF near THEN distance ELSE 0,
                                    !.outcome = "rejected"]]
                   /\ UNCHANGED <<scannedSession, showFaceCapture, captureFor>>
              ELSE /\ scannedSession' = call.sessionData
                   /\ status' = "Location verified. Please confirm your identity."
                   /\ showFaceCapture' = TRUE
                   /\ captureFor' = a
                   /\ attempts' = [attempts EXCEPT ![a] =
                          [@ EXCEPT !.closed = FALSE, !.near = near,
                                    !.distance = IF near THEN distance ELSE 0,
                                    !.faceCapture = TRUE]]
                   /\ UNCHANGED isLoading
    /\ UNCHANGED <<showScanner, retryAttempted, showApiKeyInput, verifyPending,
                   recordPending, attendance, timetable, scans, apiKeyFor>>
    /\ UNCHANGED nonStudentVars

\* handleQrScan after getCurrentLocation rejected
QrLocationFailed(i) ==
    /\ i \in 1..Len(locationPending)
    /\ locationPending' = Remove(locationPending, i)
    /\ status' = "Error: location unavailable"
    /\ isLoading' = FALSE
    /\ attempts' = [attempts EXCEPT ![locationPending[i].attempt] =
           [@ EXCEPT !.closed = FALSE, !.outcome = "rejected"]]
    /\ UNCHANGED <<showFaceCapture, showScanner, scannedSession, retryAttempted,
                   showApiKeyInput, verifyPending, recordPending, attendance,
                   timetable, scans, captureFor, apiKeyFor>>
    /\ UNCHANGED nonStudentVars

\* FaceCapture delivers a picture: handleVerification up to its await
handleVerification ==
    /\ showFaceCapture
    /\ captureFor' = 0
    /\ showFaceCapture' = FALSE
    /\ IF scannedSession = NULL
       THEN /\ status' = "Error: Session data not found"
            /\ isLoading' = FALSE
            /\ UNCHANGED verifyPending
       ELSE /\ status' = "Verifying face..."
            /\ verifyPending' = Append(verifyPending,
                   [scannedSession |-> scannedSession,
                    retryAttempted |-> retryAttempted,
                    attempt |-> captureFor])
            /\ UNCHANGED isLoading
    /\ UNCHANGED <<showScanner, scannedSession, retryAttempted, showApiKeyInput,
                   locationPending, recordPending, attendance, timetable, scans,
                   attempts, apiKeyFor>>
    /\ UNCHANGED nonStudentVars

\* the onClose handler of FaceCapture
CancelFaceCapture ==
    /\ showFaceCapture
    /\ captureFor' = 0
    /\ showFaceCapture' = FALSE
    /\ isLoading' = FALSE
    /\ status' = "Verification cancelled."
    /\ retryAttempted' = FALSE
    /\ attempts' = [Closed(attempts) EXCEPT ![captureFor] =
           [@ EXCEPT !.outcome = "cancelled"]]
    /\ UNCHANGED <<showScanner, scannedSession, showApiKeyInput, locationPending,
                   verifyPending, recordPending, attendance, timetable, scans,
                   apiKeyFor>>
    /\ UNCHANGED nonStudentVars

\* handleVerification after verifyFace resolved with {match, confidence};
\* retryAttempted is the value the handler closed over
VerifyResolved(i, match, confidence) ==
    /\ i \in 1..Len(verifyPending)
    /\ LET call == verifyPending[i]
           a == call.attempt
           decision == Decision(match, confidence, call.retryAttempted)
           currentClass == CurrentClass(timetable, now)
           calls == RecordCalls(decision, currentClass)
       IN  /\ verifyPending' = Remove(verifyPending, i)
           /\ IF decision = "accept" /\ currentClass # NULL
              THEN \* accept with a class in session: await addAttendanceRecord
                   /\ status' = "Face verified. Checking timetable..."
                   /\ recordPending' = Append(recordPending,
                          [record |-> [studentId |-> "s1",
                                       subject |-> currentClass.subject,
                                       date |-> now \div MsPerDay,
                                       status |-> "present"],
                           attempt |-> a])
                   /\ attempts' = [attempts EXCEPT ![a] =
                          [@ EXCEPT !.closed = FALSE, !.recordCalls = @ + calls]]
                   /\ UNCHANGED <<isLoading, retryAttempted, showFaceCapture,
                                  captureFor>>
              ELSE IF decision = "accept"
              THEN \* accept without a class: throw, caught below
                   /\ status' = "Error: No class scheduled at this time."
                   /\ retryAttempted' = FALSE
                   /\ isLoading' = FALSE
                   /\ attempts' = [attempts EXCEPT ![a] =
                          [@ EXCEPT !.closed = FALSE, !.outcome = "failed", !.recordCalls = @ + calls]]
                   /\ UNCHANGED <<recordPending, showFaceCapture, captureFor>>
              ELSE IF decision = "retry"
              THEN /\ retryAttempted' = TRUE
                   /\ status' = "Almost there! Please try again in better lighting."
                   /\ showFaceCapture' = TRUE
                   /\ captureFor' = a
                   /\ isLoading' = FALSE
                   /\ attempts' = [attempts EXCEPT ![a] =
                          [@ EXCEPT !.closed = FALSE, !.retryOffers = @ + 1, !.faceCapture = TRUE,
                                    !.recordCalls = @ + calls]]
                   /\ UNCHANGED recordPending
              ELSE /\ status' = RejectMessage(match)
                   /\ retryAttempted' = FALSE
                   /\ isLoading' = FALSE
                   /\ attempts' = [attempts EXCEPT ![a] =
                          [@ EXCEPT !.closed = FALSE, !.outcome = "failed",
                                    !.recordCalls = @ + calls]]
                   /\ UNCHANGED <<recordPending, showFaceCapture, captureFor>>
    /\ UNCHANGED <<showScanner, scannedSession, showApiKeyInput, locationPending,
                   attendance, timetable, scans, apiKeyFor>>
    /\ UNCHANGED nonStudentVars

\* handleVerification after verifyFace rejected: the catch block
VerifyRejected(i, apiKeyError) ==
    /\ i \in 1..Len(verifyPending)
    /\ verifyPending' = Remove(verifyPending, i)
    /\ isLoading' = FALSE
    /\ IF apiKeyError
       THEN /\ status' = "Configuration Error: API Key missing or invalid."
            /\ showApiKeyInput' = TRUE
            /\ apiKeyFor' = verifyPending[i].attempt
            /\ attempts' = [attempts EXCEPT ![verifyPending[i].attempt] =
                   [@ EXCEPT !.closed = FALSE]]
            /\ UNCHANGED retryAttempted
       ELSE /\ status' = "Error: face verification failed"
            /\ retryAttempted' = FALSE
            /\ attempts' = [attempts EXCEPT ![verifyPending[i].attempt] =
                   [@ EXCEPT !.closed = FALSE, !.outcome = "failed"]]
            /\ UNCHANGED <<showApiKeyInput, apiKeyFor>>
    /\ UNCHANGED <<showFaceCapture, showScanner, scannedSession, locationPending,
                   recordPending, attendance, timetable, scans, captureFor>>
    /\ UNCHANGED nonStudentVars

\* addAttendanceRecord once addDoc resolved: the 'attendance' collection
\* with one more document
addDoc_unlessPresent(docs, record) ==
    IF \E k \in 1..Len(docs) : docs[k] = record THEN docs
    ELSE Append(docs, record)

addDoc(docs, record) == Append(docs, record)

\* handleVerification after addAttendanceRecord resolved
RecordAdded(i) ==
    /\ i \in 1..Len(recordPending)
    /\ recordPending' = Remove(recordPending, i)
    /\ attendance' = addDoc(attendance, recordPending[i].record)
    /\ status' = "Attendance marked"
    /\ retryAttempted' = FALSE
    /\ isLoading' = FALSE
    /\ attempts' = [attempts EXCEPT ![recordPending[i].attempt] =
           [@ EXCEPT !.outcome = "success"]]
    /\ UNCHANGED <<showFaceCapture, showScanner, scannedSession, showApiKeyInput,
                   locationPending, verifyPending, timetable, scans, captureFor,
                   apiKeyFor>>
    /\ UNCHANGED nonStudentVars

\* handleVerification after addAttendanceRecord rejected: the catch block
RecordFailed(i) ==
    /\ i \in 1..Len(recordPending)
    /\ recordPending' = Remove(recordPending, i)
    /\ status' = "Error: store unavailable"
    /\ retryAttempted' = FALSE
    /\ isLoading' = FALSE
    /\ attempts' = [attempts EXCEPT ![recordPending[i].attempt] =
           [@ EXCEPT !.outcome = "storeerror"]]
    /\ UNCHANGED <<showFaceCapture, showScanner, scannedSession, showApiKeyInput,
                   locationPending, verifyPending, attendance, timetable, scans,
                   captureFor, apiKeyFor>>
    /\ UNCHANGED nonStudentVars

\* handleApiKeySubmit
handleApiKeySubmit ==
    /\ showApiKeyInput
    /\ apiKeyFor' = 0
    /\ showApiKeyInput' = FALSE
    /\ status' = "API Key saved. Please try verification again."
    /\ showFaceCapture' = TRUE
    /\ IF showFaceCapture
       THEN UNCHANGED <<captureFor, attempts>>
       ELSE /\ captureFor' = apiKeyFor
            /\ attempts' = [attempts EXCEPT ![apiKeyFor] =
                   [@ EXCEPT !.faceCapture = TRUE]]
    /\ UNCHANGED <<isLoading, showScanner, scannedSession, retryAttempted,
                   locationPending, verifyPending, recordPending, attendance,
                   timetable, scans>>
    /\ UNCHANGED nonStudentVars

\* the onClose handler of ApiKeyInput
CloseApiKeyInput ==
    /\ showApiKeyInput
    /\ apiKeyFor' = 0
    /\ showApiKeyInput' = FALSE
    /\ isLoading' = FALSE
    /\ attempts' = [attempts EXCEPT ![apiKeyFor] = [@ EXCEPT !.outcome = "cancelled"]]
    /\ UNCHANGED <<status, showFaceCapture, showScanner, scannedSession,
                   retryAttempted, locationPending, verifyPending, recordPending,
                   attendance, timetable, scans, captureFor>>
    /\ UNCHANGED nonStudentVars

----------------------------------------------------------------------------
(* Schedule status: getScheduleStatus and the lookup of handleVerification *)

\* null where the code has string | null
NULL_ID == ""

\* the order of the days in the timetable the context hands out
daysOfWeekOrder == <<"Monday", "Tuesday", "Wednesday", "Thursday", "Friday",
                     "Saturday", "Sunday">>

IndexOf(seq, x) == CHOOSE k \in 1..Len(seq) : seq[k] = x

\* the characters of the "HH:MM" string of a time; 10 stands for the colon,
\* which sorts after the digits
TimeString(time) ==
    <<time.h \div 10, time.h % 10, 10, time.m \div 10, time.m % 10>>

\* a.localeCompare(b) on two "HH:MM" strings: the sign of the first
\* character that differs
localeCompare(a, b) ==
    LET diff == {k \in 1..Len(a) : a[k] # b[k]}
    IN  IF diff = {} THEN 0
        ELSE LET k == CHOOSE j \in diff : \A i \in diff : j <= i
             IN  IF a[k] < b[k] THEN -1 ELSE 1

\* entry.duration || DEFAULT_CLASS_DURATION_MINS
Duration(entry) ==
    IF entry.duration # 0 THEN entry.duration ELSE DEFAULT_CLASS_DURATION_MINS

\* sortTimetable: by day, Monday first, then by time string
SortBefore(a, b) ==
    LET da == IndexOf(daysOfWeekOrder, a.day)
        db == IndexOf(daysOfWeekOrder, b.day)
    IN  \/ da < db
        \/ da = db /\ localeCompare(TimeString(a.time), TimeString(b.time)) <= 0

sortTimetable(entries) ==
    LET n == Cardinality(entries)
    IN  CHOOSE tt \in [1..n -> entries] :
            /\ \A e \in entries : \E k \in 1..n : tt[k] = e
            /\ \A j, k \in 1..n : j < k => SortBefore(tt[j], tt[k])

\* the test of getScheduleStatus for the class in session
InSession_le(nowTimeValue, startTime, endTime) ==
    nowTimeValue >= startTime /\ nowTimeValue <= endTime

InSession(nowTimeValue, startTime, endTime) ==
    nowTimeValue >= startTime /\ nowTimeValue < endTime

\* the test of getScheduleStatus for a class still to come today
Upcoming_ge(nowTimeValue, startTime) == startTime >= nowTimeValue

Upcoming(nowTimeValue, startTime) == startTime > nowTimeValue

\* getScheduleStatus(timetable) at instant t
getScheduleStatus(tt, t) ==
    LET nowDay == getDay(t)
        currentDay == DAYS_OF_WEEK[nowDay + 1]
        nowTimeValue == getHours(t) * 60 + getMinutes(t)
        startTimeValue(k) == TimeValue(tt[k].time)
        \* todayEntries: the entries of today in the order of the stable
        \* sort by startTimeValue
        today == {k \in 1..Len(tt) : tt[k].day = currentDay}
        Before(j, k) == \/ startTimeValue(j) < startTimeValue(k)
                        \/ startTimeValue(j) = startTimeValue(k) /\ j < k
        current == {k \in today :
                       InSession(nowTimeValue, startTimeValue(k),
                                 startTimeValue(k) + Duration(tt[k]))}
        upcomingToday == {k \in today : Upcoming(nowTimeValue, startTimeValue(k))}
        \* the loop keeps the last entry in session, the first one to come
        currentClassId ==
            IF current = {} THEN NULL_ID
            ELSE tt[CHOOSE k \in current :
                        \A j \in current \ {k} : Before(j, k)].id
        \* the entries of the day i days ahead, stably sorted by time string
        dayEntries(i) ==
            {k \in 1..Len(tt) : tt[k].day = DAYS_OF_WEEK[((nowDay + i) % 7) + 1]}
        StrBefore(j, k) ==
            LET c == localeCompare(TimeString(tt[j].time), TimeString(tt[k].time))
            IN  c < 0 \/ (c = 0 /\ j < k)
        ahead == {i \in 1..7 : dayEntries(i) # {}}
        nextClassId ==
            IF upcomingToday # {}
            THEN tt[CHOOSE k \in upcomingToday :
                        \A j \in upcomingToday \ {k} : Before(k, j)].id
            ELSE IF ahead = {} THEN NULL_ID
            ELSE LET i == CHOOSE x \in ahead : \A y \in ahead : x <= y
                 IN  tt[CHOOSE k \in dayEntries(i) :
                            \A j \in dayEntries(i) \ {k} : StrBefore(k, j)].id
    IN  [currentClassId |-> currentClassId, nextClassId |-> nextClassId]

\* the entries timetables are made of: two back-to-back classes on Monday,
\* one that overlaps the first, two on Tuesday, the later one first by id,
\* and one on Sunday night that runs past midnight
ScheduleEntries ==
    {[id |-> "a", day |-> "Monday", time |-> [h |-> 9, m |-> 0],
      duration |-> 45, subject |-> "PA"],
     [id |-> "b", day |-> "Monday", time |-> [h |-> 9, m |-> 45],
      duration |-> 0, subject |-> "PB"],
     [id |-> "c", day |-> "Monday", time |-> [h |-> 9, m |-> 30],
      duration |-> 30, subject |-> "PC"],
     [id |-> "d", day |-> "Tuesday", time |-> [h |-> 10, m |-> 0],
      duration |-> 60, subject |-> "PD"],
     [id |-> "e", day |-> "Tuesday", time |-> [h |-> 8, m |-> 0],
      duration |-> 45, subject |-> "PE"],
     [id |-> "f", day |-> "Sunday", time |-> [h |-> 23, m |-> 30],
      duration |-> 45, subject |-> "PF"]}

MaxEntries == 3

\* the timetables of the context: always sorted by sortTimetable
ScheduleTimetables ==
    {sortTimetable(es) : es \in {x \in SUBSET ScheduleEntries :
                                    Cardinality(x) <= MaxEntries}}

\* the instants the schedule is looked at
ScheduleTimes ==
    {At(0, 23, 45), At(1, 0, 10), At(1, 8, 59), At(1, 9, 0), At(1, 9, 44),
     At(1, 9, 45), At(1, 10, 29), At(1, 10, 30), At(2, 9, 0), At(3, 12, 0)}

\* entries as the store can hold them: one without a duration (0 stands for
\* every falsy value: absent, null, 0, NaN), one with a negative duration,
\* one with a valid duration
DurationEntries ==
    {[id |-> "g", day |-> "Wednesday", time |-> [h |-> 9, m |-> 0],
      duration |-> 0, subject |-> "PG"],
     [id |-> "h", day |-> "Wednesday", time |-> [h |-> 11, m |-> 0],
      duration |-> -30, subject |-> "PH"],
     [id |-> "i", day |-> "Thursday", time |-> [h |-> 9, m |-> 0],
      duration |-> 45, subject |-> "PI"]}

DurationTimetables ==
    {sortTimetable(es) : es \in {x \in SUBSET DurationEntries :
                                    Cardinality(x) <= MaxEntries}}

\* the instants those timetables are looked at
DurationTimes ==
    {At(3, 9, 0), At(3, 9, 44), At(3, 9, 46), At(3, 11, 0), At(3, 11, 44),
     At(3, 11, 46), At(4, 9, 10)}

\* the state of the components before their first effect
ScheduleMounted ==
    /\ scheduleStatus = [currentClassId |-> NULL_ID, nextClassId |-> NULL_ID]
    /\ statusAt = -1
    /\ resolvedClass = NULL
    /\ resolvedAt = -1

\* updateStatus: run by the effect on mount, on every timetable change and
\* by its interval
updateStatus ==
    /\ scheduleStatus' = getScheduleStatus(timetable, now)
    /\ statusAt' = now
    /\ UNCHANGED <<now, resolvedClass, resolvedAt>>
    /\ UNCHANGED nonScheduleVars

\* the lookup handleVerification makes on accept
AcceptLookup ==
    /\ resolvedClass' = CurrentClass(timetable, now)
    /\ resolvedAt' = now
    /\ UNCHANGED <<now, scheduleStatus, statusAt>>
    /\ UNCHANGED nonScheduleVars

\* time passes
ScheduleClock ==
    /\ \E t \in ScheduleTimes : t > now /\ now' = t
    /\ UNCHANGED scheduleVars
    /\ UNCHANGED nonScheduleVars

ScheduleNext ==
    \/ updateStatus
    \/ AcceptLookup
    \/ ScheduleClock

\* time passes over the instants of DurationTimes
DurationClock ==
    /\ \E t \in DurationTimes : t > now /\ now' = t
    /\ UNCHANGED scheduleVars
    /\ UNCHANGED nonScheduleVars

DurationNext ==
    \/ updateStatus
    \/ AcceptLookup
    \/ DurationClock

----------------------------------------------------------------------------
(* Attendance ledger: deleteMultipleAttendanceRecords and                  *)
(* deleteAllAttendanceRecords of AppProvider.  Their callers are rendered  *)
(* only when Firebase is initialised, so db is never null in a call.       *)

BATCH_SIZE == 500

Min(a, b) == IF a < b THEN a ELSE b

\* the documents of the 'attendance' collection: ids 1..n, every seventh of
\* a subject of another presenter
LedgerDocs(n) ==
    [i \in 1..n |->
        [id |-> i, studentId |-> "s1",
         subject |-> IF i % 7 = 0 THEN "PX" ELSE IF i % 2 = 0 THEN "PA" ELSE "PB",
         date |-> 0, status |-> "present"]]

\* the sizes of the ledger a run starts with
LedgerSizes == {0, 3, 600, 1400}

\* userRole and currentFaculty.subjects at a call
Roles == {"faculty", "student"}

FacultySubjects == {{}, {"PA"}, {"PA", "PB"}}

\* the id lists deleteMultipleAttendanceRecords is called with
DeleteInputs == {{}, {1, 2}}

\* no call made yet
LedgerIdle ==
    /\ purge = [state |-> "idle", batches |-> <<>>, rejectedBy |-> 0,
                subjects |-> {}, error |-> ""]
    /\ deleteMany = [state |-> "idle", ids |-> {}, batches |-> 0]

\* the documents left after a batch of deletes committed
Deleted(docs, ids) == SelectSeq(docs, LAMBDA r : r.id \notin ids)

\* if (!ids || ids.length === 0)
IdsMissing_never(ids) == FALSE

IdsMissing(ids) == ids = {}

\* deleteMultipleAttendanceRecords(ids) up to its await
deleteMultipleAttendanceRecords(ids) ==
    /\ deleteMany.state # "pending"
    /\ IF IdsMissing(ids)
       THEN deleteMany' = [state |-> "resolved", ids |-> ids, batches |-> 0]
       ELSE deleteMany' = [state |-> "pending", ids |-> ids, batches |-> 1]
    /\ UNCHANGED <<attendance, purge>>
    /\ UNCHANGED nonLedgerVars

\* batch.commit() of deleteMultipleAttendanceRecords succeeded
DeleteManyCommitted ==
    /\ deleteMany.state = "pending"
    /\ attendance' = Deleted(attendance, deleteMany.ids)
    /\ deleteMany' = [deleteMany EXCEPT !.state = "resolved"]
    /\ UNCHANGED purge
    /\ UNCHANGED nonLedgerVars

\* batch.commit() of deleteMultipleAttendanceRecords failed
DeleteManyFailed ==
    /\ deleteMany.state = "pending"
    /\ deleteMany' = [deleteMany EXCEPT !.state = "rejected"]
    /\ UNCHANGED <<attendance, purge>>
    /\ UNCHANGED nonLedgerVars

PurgeRunning ==
    \/ purge.state \in {"fetching", "committing"}
    \/ \E b \in 1..Len(purge.batches) : purge.batches[b].state = "pending"

\* deleteAllAttendanceRecords up to await getDocs
deleteAllAttendanceRecords(role, subjects) ==
    /\ ~PurgeRunning
    /\ purge' = [state |-> IF role # "faculty" \/ subjects = {}
                           THEN "rejected" ELSE "fetching",
                 batches |-> <<>>, rejectedBy |-> 0, subjects |-> subjects,
                 error |-> IF role # "faculty" \/ subjects = {}
                           THEN "Operation cancelled: Not a faculty or no subjects assigned."
                           ELSE ""]
    /\ UNCHANGED <<attendance, deleteMany>>
    /\ UNCHANGED nonLedgerVars

\* the batches of the loop: slices of BATCH_SIZE documents, each committed
\* without waiting for the one before
Batches_single(recordsToDelete) ==
    << [ids |-> {recordsToDelete[i].id : i \in 1..Len(recordsToDelete)},
        state |-> "pending"] >>

Batches(recordsToDelete) ==
    LET n == Len(recordsToDelete)
    IN  [b \in 1..((n + BATCH_SIZE - 1) \div BATCH_SIZE) |->
            [ids |-> {recordsToDelete[i].id :
                         i \in ((b - 1) * BATCH_SIZE + 1)..Min(b * BATCH_SIZE, n)},
             state |-> "pending"]]

\* deleteAllAttendanceRecords after getDocs resolved, up to await Promise.all
PurgeFetched ==
    /\ purge.state = "fetching"
    /\ LET recordsToDelete ==
               SelectSeq(attendance, LAMBDA r : r.subject \in purge.subjects)
       IN  IF Len(recordsToDelete) = 0
           THEN purge' = [purge EXCEPT !.state = "resolved"]
           ELSE purge' = [purge EXCEPT !.state = "committing",
                                       !.batches = Batches(recordsToDelete)]
    /\ UNCHANGED <<attendance, deleteMany>>
    /\ UNCHANGED nonLedgerVars

\* getDocs rejected
PurgeFetchFailed ==
    /\ purge.state = "fetching"
    /\ purge' = [purge EXCEPT !.state = "rejected", !.error = "getDocs failed"]
    /\ UNCHANGED <<attendance, deleteMany>>
    /\ UNCHANGED nonLedgerVars

\* Promise.all(promises) once every batch but b is in the given states and b
\* has just been fulfilled: fulfilled when all are
AllFulfilled(batches, b) ==
    \A k \in 1..Len(batches) : k # b => batches[k].state = "committed"

\* one batch commit succeeded
BatchCommitted(b) ==
    /\ b \in 1..Len(purge.batches)
    /\ purge.batches[b].state = "pending"
    /\ attendance' = Deleted(attendance, purge.batches[b].ids)
    /\ purge' = [purge EXCEPT
           !.batches[b].state = "committed",
           !.state = IF @ = "committing" /\ AllFulfilled(purge.batches, b)
                     THEN "resolved" ELSE @]
    /\ UNCHANGED deleteMany
    /\ UNCHANGED nonLedgerVars

\* one batch commit failed: Promise.all rejects with the first rejection
BatchFailed(b) ==
    /\ b \in 1..Len(purge.batches)
    /\ purge.batches[b].state = "pending"
    /\ purge' = [purge EXCEPT
           !.batches[b].state = "failed",
           !.state = IF @ = "committing" THEN "rejected" ELSE @,
           !.rejectedBy = IF purge.state = "committing" THEN b ELSE @,
           !.error = IF purge.state = "committing" THEN "commit failed" ELSE @]
    /\ UNCHANGED <<attendance, deleteMany>>
    /\ UNCHANGED nonLedgerVars

LedgerNext ==
    \/ \E ids \in DeleteInputs : deleteMultipleAttendanceRecords(ids)
    \/ DeleteManyCommitted
    \/ DeleteManyFailed
    \/ \E role \in Roles, subjects \in FacultySubjects :
          deleteAllAttendanceRecords(role, subjects)
    \/ PurgeFetched
    \/ PurgeFetchFailed
    \/ \E b \in 1..Len(purge.batches) : BatchCommitted(b)
    \/ \E b \in 1..Len(purge.batches) : BatchFailed(b)

----------------------------------------------------------------------------
(* ManualAttendance: markManualAttendance of AppProvider *)

MaxLedgerSize == 2         \* records and pending marks when a mark is made

\* the students of the roster and the uids a mark is made for
Roster == {"s1"}

MarkUids == {"s1", "s9"}

MarkSubjects == {"PA"}

MarksIdle == manualPending = <<>> /\ markRejected = FALSE

\* markManualAttendance up to await addAttendanceRecord; returns at once when
\* the uid is not on the roster
markManualAttendance(studentUid, subject) ==
    /\ Len(attendance) + Len(manualPending) < MaxLedgerSize
    /\ manualPending' =
           IF studentUid \notin Roster THEN manualPending
           ELSE Append(manualPending,
                       [studentId |-> studentUid, subject |-> subject,
                        date |-> now \div MsPerDay, status |-> "present"])
    /\ UNCHANGED <<attendance, markRejected>>
    /\ UNCHANGED nonMarkVars

\* addAttendanceRecord of a manual mark resolved
ManualMarkAdded(i) ==
    /\ i \in 1..Len(manualPending)
    /\ attendance' = addDoc(attendance, manualPending[i])
    /\ manualPending' = Remove(manualPending, i)
    /\ UNCHANGED markRejected
    /\ UNCHANGED nonMarkVars

\* addAttendanceRecord of a manual mark rejected: handleMarkPresent does
\* not await the promise, so the rejection is left unhandled
ManualMarkFailed(i) ==
    /\ i \in 1..Len(manualPending)
    /\ manualPending' = Remove(manualPending, i)
    /\ markRejected' = TRUE
    /\ UNCHANGED attendance
    /\ UNCHANGED nonMarkVars

\* the accepted verifications of an attendee in range with a fresh token,
\* and the manual marks of the presenter
MarkNext ==
    \/ ScanButton
    \/ handleQrScan([parses |-> TRUE, location |-> Loc(0),
                     timestamp |-> now - QR_REFRESH_INTERVAL_MS])
    \/ \E i \in 1..MaxScans : QrLocated(i, Loc(MAX_DISTANCE_METERS))
    \/ handleVerification
    \/ \E i \in 1..MaxScans : VerifyResolved(i, TRUE, CONFIDENCE_THRESHOLD)
    \/ \E i \in 1..MaxScans : RecordAdded(i)
    \/ \E i \in 1..MaxScans : RecordFailed(i)
    \/ \E studentUid \in MarkUids, subject \in MarkSubjects :
          markManualAttendance(studentUid, subject)
    \/ \E i \in 1..MaxLedgerSize : ManualMarkAdded(i)
    \/ \E i \in 1..MaxLedgerSize : ManualMarkFailed(i)

----------------------------------------------------------------------------
(* TimetableManager.handleSubmit of the presenters of one department, with *)
(* addTimetableEntry / updateTimetableEntry and the timetable snapshots    *)

Presenters == {"f1", "f2"}

\* ids the store gives to new documents
DocIds == <<"t1", "t2", "t3", "t4", "t5">>

MaxTimetableDocs == 3

\* the form fields a submission is made with
FormDays == {"Monday"}

FormTimes == {[h |-> 9, m |-> 0], [h |-> 9, m |-> 30]}

FormDurations == {0, 45}

ManagerMounted ==
    /\ timetableDocs = {}
    /\ managerView = [p \in Presenters |-> <<>>]
    /\ managerPending = [p \in Presenters |-> NULL]
    /\ managerError = [p \in Presenters |-> ""]

\* timeToMinutes
timeToMinutes(t) == t.h * 60 + t.m

\* the overlap test of handleSubmit against one entry of the timetable
Conflicts(entry, editingEntry, day, newStart, newEnd) ==
    /\ entry.day = day
    /\ ~(editingEntry # NULL /\ entry.id = editingEntry.id)
    /\ newStart < timeToMinutes(entry.time) + Duration(entry)
    /\ timeToMinutes(entry.time) < newEnd

\* handleSubmit of presenter p up to its await; the button is disabled
\* while a submission is being saved
handleSubmit(p, editingEntry, day, time, duration) ==
    /\ managerPending[p] = NULL
    /\ editingEntry # NULL =>
           \E k \in 1..Len(managerView[p]) : managerView[p][k] = editingEntry
    /\ editingEntry = NULL =>
           Cardinality(timetableDocs)
               + Cardinality({q \in Presenters : managerPending[q] # NULL})
               < MaxTimetableDocs
    /\ LET tt == managerView[p]
           entriesForDay == Cardinality({k \in 1..Len(tt) : tt[k].day = day})
           newStart == timeToMinutes(time)
           newEnd == newStart + duration
           conflict == \E k \in 1..Len(tt) :
                          Conflicts(tt[k], editingEntry, day, newStart, newEnd)
       IN  IF duration <= 0
           THEN /\ managerError' = [managerError EXCEPT ![p] =
                       "Time, Subject, and a valid Duration are required."]
                /\ UNCHANGED managerPending
           ELSE IF editingEntry = NULL /\ entriesForDay >= 7
           THEN /\ managerError' = [managerError EXCEPT ![p] =
                       "Cannot add more than 7 classes"]
                /\ UNCHANGED managerPending
           ELSE IF conflict
           THEN /\ managerError' = [managerError EXCEPT ![p] = "Conflict"]
                /\ UNCHANGED managerPending
           ELSE /\ managerError' = [managerError EXCEPT ![p] = ""]
                /\ managerPending' = [managerPending EXCEPT ![p] =
                       [editing |-> editingEntry, day |-> day, time |-> time,
                        subject |-> "PA", duration |-> duration]]
    /\ UNCHANGED <<timetableDocs, managerView>>
    /\ UNCHANGED nonManagerVars

\* the documents after addDoc or updateDoc of a pending write
Written(docs, w) ==
    IF w.editing = NULL
    THEN docs \cup {[id |-> DocIds[Cardinality(docs) + 1], day |-> w.day,
                     time |-> w.time, duration |-> w.duration,
                     subject |-> w.subject]}
    ELSE {IF d.id = w.editing.id
          THEN [d EXCEPT !.day = w.day, !.time = w.time,
                         !.duration = w.duration, !.subject = w.subject]
          ELSE d : d \in docs}

\* addDoc / updateDoc resolved: the writer's own listener has the write when
\* the promise resolves; handleSubmit resets the form
WriteCommitted(p) ==
    /\ managerPending[p] # NULL
    /\ timetableDocs' = Written(timetableDocs, managerPending[p])
    /\ managerView' = [managerView EXCEPT ![p] = sortTimetable(timetableDocs')]
    /\ managerPending' = [managerPending EXCEPT ![p] = NULL]
    /\ UNCHANGED managerError
    /\ UNCHANGED nonManagerVars

\* addDoc / updateDoc rejected: the catch block shows the message
WriteFailed(p) ==
    /\ managerPending[p] # NULL
    /\ managerPending' = [managerPending EXCEPT ![p] = NULL]
    /\ managerError' = [managerError EXCEPT ![p] = "Database Error"]
    /\ UNCHANGED <<timetableDocs, managerView>>
    /\ UNCHANGED nonManagerVars

\* the onSnapshot callback of presenter p
TimetableSnapshot(p) ==
    /\ managerView[p] # sortTimetable(timetableDocs)
    /\ managerView' = [managerView EXCEPT ![p] = sortTimetable(timetableDocs)]
    /\ UNCHANGED <<timetableDocs, managerPending, managerError>>
    /\ UNCHANGED nonManagerVars

\* the entries presenter p can have in the form: none, or one of the list
Editable(p) == {NULL} \cup {managerView[p][k] : k \in 1..Len(managerView[p])}

ManagerNext ==
    \/ \E p \in Presenters, day \in FormDays, time \in FormTimes,
          duration \in FormDurations :
          \E editingEntry \in Editable(p) :
             handleSubmit(p, editingEntry, day, time, duration)
    \/ \E p \in Presenters : WriteCommitted(p)
    \/ \E p \in Presenters : WriteFailed(p)
    \/ \E p \in Presenters : TimetableSnapshot(p)

----------------------------------------------------------------------------
(* AppProvider: the auth state listener and the data listeners.  The state  *)
(* updates of one continuation are applied together, and the data listener *)
(* effect runs after them when userId, userRole or userDepartment changed.  *)
(* A profile is known by its uid; every profile is of one department.       *)

MaxAuthCallbacks == 2      \* auth callbacks awaiting a getDoc at once

\* the accounts of the auth service
Uids == {"u1", "u2"}

\* the role field a 'users' document can carry; "other" is any other value
RoleFields == {"student", "faculty", "other"}

\* err.code of a failed getDoc or listener
ErrorCodes == {"permission-denied", "unavailable"}

\* the data feeds of the context
Feeds == {"students", "timetable", "attendance"}

NoErrors ==
    [systemError |-> NULL_ID, studentsError |-> NULL_ID,
     timetableError |-> NULL_ID, attendanceError |-> NULL_ID]

AppMounted ==
    /\ currentUser = NULL_ID
    /\ userRole = NULL_ID
    /\ currentStudent = NULL_ID
    /\ currentFaculty = NULL_ID
    /\ loadingAuth = TRUE
    /\ errors = NoErrors
    /\ feedData = [f \in Feeds |-> 0]
    /\ listeners = {}
    /\ authCallbacks = <<>>

\* userDepartment of a render
userDepartment(role, student, faculty) ==
    IF role = "faculty"
    THEN IF faculty # NULL_ID THEN "CSE" ELSE NULL_ID
    ELSE IF student # NULL_ID THEN "CSE" ELSE NULL_ID

\* the listeners the effect subscribes for a signed-in user
Subscribed(role, department) ==
    (IF department # NULL_ID THEN {"timetable"} ELSE {})
        \cup (IF role = "faculty"
              THEN (IF department # NULL_ID THEN {"students"} ELSE {})
                       \cup {"attendance", "facultyProfile"}
              ELSE IF role = "student" THEN {"attendance"} ELSE {})

\* the data listener effect after a render with the given state: nothing
\* when no dependency changed; otherwise the cleanup unsubscribes, and the
\* body empties the feeds when nobody is signed in, or resets the four
\* errors and subscribes again
DataListeners(user, role, student, faculty, errs) ==
    LET before == <<currentUser, userRole,
                    userDepartment(userRole, currentStudent, currentFaculty)>>
        department == userDepartment(role, student, faculty)
        after == <<user, role, department>>
    IN  IF after = before
        THEN /\ errors' = errs
             /\ UNCHANGED <<feedData, listeners>>
        ELSE IF user = NULL_ID
        THEN /\ errors' = errs
             /\ feedData' = [f \in Feeds |-> 0]
             /\ listeners' = {}
        ELSE /\ errors' = NoErrors
             /\ feedData' = [feedData EXCEPT
                    !["timetable"] = IF department = NULL_ID THEN 0 ELSE @]
             /\ listeners' = Subscribed(role, department)

\* onAuthStateChanged fires with a user: the callback up to its first await
AuthSignedIn(uid) ==
    /\ currentUser = NULL_ID
    /\ Len(authCallbacks) < MaxAuthCallbacks
    /\ currentUser' = uid
    /\ authCallbacks' = Append(authCallbacks,
                               [uid |-> uid, awaits |-> "users", role |-> NULL_ID])
    /\ UNCHANGED <<userRole, currentStudent, currentFaculty, loadingAuth>>
    /\ DataListeners(currentUser', userRole', currentStudent', currentFaculty', errors)
    /\ UNCHANGED nonAppVars

\* onAuthStateChanged fires with null: at the start, or after signOut
AuthSignedOut ==
    /\ currentUser # NULL_ID \/ loadingAuth
    /\ currentUser' = NULL_ID
    /\ userRole' = NULL_ID
    /\ currentStudent' = NULL_ID
    /\ currentFaculty' = NULL_ID
    /\ loadingAuth' = FALSE
    /\ UNCHANGED authCallbacks
    /\ DataListeners(currentUser', userRole', currentStudent', currentFaculty', errors)
    /\ UNCHANGED nonAppVars

\* the callback after getDoc of 'users' resolved
UserDocFetched(i, exists, role) ==
    /\ i \in 1..Len(authCallbacks)
    /\ authCallbacks[i].awaits = "users"
    /\ IF exists /\ role \in {"student", "faculty"}
       THEN /\ userRole' = role
            /\ authCallbacks' = [authCallbacks EXCEPT
                   ![i] = [@ EXCEPT !.awaits = "profile", !.role = role]]
            /\ UNCHANGED <<currentStudent, currentFaculty, loadingAuth>>
       ELSE IF exists
       THEN /\ userRole' = role
            /\ currentStudent' = NULL_ID
            /\ currentFaculty' = NULL_ID
            /\ loadingAuth' = FALSE
            /\ authCallbacks' = Remove(authCallbacks, i)
       ELSE /\ userRole' = NULL_ID
            /\ loadingAuth' = FALSE
            /\ authCallbacks' = Remove(authCallbacks, i)
            /\ UNCHANGED <<currentStudent, currentFaculty>>
    /\ UNCHANGED currentUser
    /\ DataListeners(currentUser', userRole', currentStudent', currentFaculty', errors)
    /\ UNCHANGED nonAppVars

\* the callback after getDoc of 'students' or 'faculty' resolved
ProfileFetched(i, exists) ==
    /\ i \in 1..Len(authCallbacks)
    /\ authCallbacks[i].awaits = "profile"
    /\ IF authCallbacks[i].role = "student"
       THEN /\ currentStudent' = IF exists THEN authCallbacks[i].uid
                                 ELSE currentStudent
            /\ currentFaculty' = NULL_ID
       ELSE /\ currentFaculty' = IF exists THEN authCallbacks[i].uid
                                 ELSE currentFaculty
            /\ currentStudent' = NULL_ID
    /\ loadingAuth' = FALSE
    /\ authCallbacks' = Remove(authCallbacks, i)
    /\ UNCHANGED <<currentUser, userRole>>
    /\ DataListeners(currentUser', userRole', currentStudent', currentFaculty', errors)
    /\ UNCHANGED nonAppVars

\* the callback after either getDoc rejected: the catch block
ProfileFetchFailed(i, code) ==
    /\ i \in 1..Len(authCallbacks)
    /\ authCallbacks' = Remove(authCallbacks, i)
    /\ loadingAuth' = FALSE
    /\ errors' = IF code = "permission-denied"
                 THEN [errors EXCEPT !.systemError = "no permission for profiles"]
                 ELSE errors
    /\ UNCHANGED <<currentUser, userRole, currentStudent, currentFaculty,
                   feedData, listeners>>
    /\ UNCHANGED nonAppVars

\* a snapshot of a data feed arrives
SnapshotDelivered(feed) ==
    /\ feed \in listeners \cap Feeds
    /\ feedData' = [feedData EXCEPT ![feed] = 1]
    /\ UNCHANGED <<currentUser, userRole, currentStudent, currentFaculty,
                   loadingAuth, errors, listeners, authCallbacks>>
    /\ UNCHANGED nonAppVars

\* a snapshot of the presenter's profile document arrives
FacultyProfileSnapshot ==
    /\ "facultyProfile" \in listeners
    /\ currentFaculty' = currentUser
    /\ UNCHANGED <<currentUser, userRole, currentStudent, loadingAuth,
                   authCallbacks>>
    /\ DataListeners(currentUser', userRole', currentStudent', currentFaculty', errors)
    /\ UNCHANGED nonAppVars

\* the field handleSnapshotError sets for a feed
ErrorField(feed) ==
    IF feed = "students" THEN "studentsError"
    ELSE IF feed = "timetable" THEN "timetableError"
    ELSE "attendanceError"

\* the errors after handleSnapshotError(err, context) for the feed of context
ErrorsAfter_global(errs, code, feed) ==
    IF code = "permission-denied"
    THEN [errs EXCEPT !.systemError = "Permission denied"]
    ELSE errs

ErrorsAfter(errs, code, feed) ==
    IF code = "permission-denied"
    THEN [errs EXCEPT ![ErrorField(feed)] = "Permission denied"]
    ELSE errs

\* the error callback of a data listener; the store ends the listener
handleSnapshotError(code, feed) ==
    /\ feed \in listeners \cap Feeds
    /\ errors' = ErrorsAfter(errors, code, feed)
    /\ listeners' = listeners \ {feed}
    /\ UNCHANGED <<currentUser, userRole, currentStudent, currentFaculty,
                   loadingAuth, feedData, authCallbacks>>
    /\ UNCHANGED nonAppVars

AppNext ==
    \/ \E uid \in Uids : AuthSignedIn(uid)
    \/ AuthSignedOut
    \/ \E i \in 1..MaxAuthCallbacks, exists \in BOOLEAN, role \in RoleFields :
          UserDocFetched(i, exists, role)
    \/ \E i \in 1..MaxAuthCallbacks, exists \in BOOLEAN : ProfileFetched(i, exists)
    \/ \E i \in 1..MaxAuthCallbacks, code \in ErrorCodes : ProfileFetchFailed(i, code)
    \/ \E feed \in Feeds : SnapshotDelivered(feed)
    \/ FacultyProfileSnapshot
    \/ \E code \in ErrorCodes, feed \in Feeds : handleSnapshotError(code, feed)

----------------------------------------------------------------------------
(* Specifications *)

FacultyInit ==
    /\ now = 0
    /\ FacultyMounted
    /\ StudentMounted
    /\ ScheduleMounted
    /\ LedgerIdle
    /\ ManagerMounted
    /\ MarksIdle
    /\ AppMounted

FacultySpec == FacultyInit /\ [][FacultyNext]_vars

PortalSpec == FacultyInit /\ [][PortalNext]_vars

StudentInit ==
    /\ now \in StudentTimes
    /\ FacultyMounted
    /\ StudentMounted
    /\ ScheduleMounted
    /\ LedgerIdle
    /\ ManagerMounted
    /\ MarksIdle
    /\ AppMounted

StudentNext ==
    \/ ScanButton
    \/ CloseScanner
    \/ \E data \in QrData(now) : handleQrScan(data)
    \/ \E i \in 1..MaxScans, l \in StudentPositions : QrLocated(i, l)
    \/ \E i \in 1..MaxScans : QrLocationFailed(i)
    \/ handleVerification
    \/ CancelFaceCapture
    \/ \E i \in 1..MaxScans, match \in BOOLEAN, confidence \in Confidences :
          VerifyResolved(i, match, confidence)
    \/ \E i \in 1..MaxScans, apiKeyError \in BOOLEAN : VerifyRejected(i, apiKeyError)
    \/ \E i \in 1..MaxScans : RecordAdded(i)
    \/ \E i \in 1..MaxScans : RecordFailed(i)
    \/ handleApiKeySubmit
    \/ CloseApiKeyInput

StudentSpec == StudentInit /\ [][StudentNext]_vars

\* the dashboard scanning tokens of a presenter whose clock is ahead
SkewNext ==
    \/ ScanButton
    \/ CloseScanner
    \/ \E data \in SkewedQrData(now) : handleQrScan(data)
    \/ \E i \in 1..MaxScans, l \in StudentPositions : QrLocated(i, l)
    \/ \E i \in 1..MaxScans : QrLocationFailed(i)
    \/ handleVerification
    \/ CancelFaceCapture
    \/ \E i \in 1..MaxScans, match \in BOOLEAN, confidence \in Confidences :
          VerifyResolved(i, match, confidence)
    \/ \E i \in 1..MaxScans, apiKeyError \in BOOLEAN : VerifyRejected(i, apiKeyError)
    \/ \E i \in 1..MaxScans : RecordAdded(i)
    \/ \E i \in 1..MaxScans : RecordFailed(i)
    \/ handleApiKeySubmit
    \/ CloseApiKeyInput

SkewSpec == StudentInit /\ [][SkewNext]_vars

MarkSpec == StudentInit /\ [][MarkNext]_vars

ScheduleInit ==
    /\ now \in ScheduleTimes
    /\ FacultyMounted
    /\ \E tt \in ScheduleTimetables : StudentMountedWith(tt, <<>>)
    /\ ScheduleMounted
    /\ LedgerIdle
    /\ ManagerMounted
    /\ MarksIdle
    /\ AppMounted

ScheduleSpec == ScheduleInit /\ [][ScheduleNext]_vars

DurationInit ==
    /\ now \in DurationTimes
    /\ FacultyMounted
    /\ \E tt \in DurationTimetables : StudentMountedWith(tt, <<>>)
    /\ ScheduleMounted
    /\ LedgerIdle
    /\ ManagerMounted
    /\ MarksIdle
    /\ AppMounted

DurationSpec == DurationInit /\ [][DurationNext]_vars

LedgerInit ==
    /\ now = 0
    /\ FacultyMounted
    /\ \E n \in LedgerSizes : StudentMountedWith(StudentTimetable, LedgerDocs(n))
    /\ ScheduleMounted
    /\ LedgerIdle
    /\ ManagerMounted
    /\ MarksIdle
    /\ AppMounted

LedgerSpec == LedgerInit /\ [][LedgerNext]_vars

ManagerInit ==
    /\ now = 0
    /\ FacultyMounted
    /\ StudentMounted
    /\ ScheduleMounted
    /\ LedgerIdle
    /\ ManagerMounted
    /\ MarksIdle
    /\ AppMounted

ManagerSpec == ManagerInit /\ [][ManagerNext]_vars

AppSpec == ManagerInit /\ [][AppNext]_vars

----------------------------------------------------------------------------
(* Presenter-side properties *)

\* C3: after stopSession the session is Idle and stays Idle until the next
\* startSession: an Idle session has no refresh interval armed, and the only
\* step that takes the session from Idle to Active is the completion of a
\* startSession, never an interval callback that was in flight at the stop.
C3_IdleUntilStart ==
    /\ [](activeSession = NULL => locationRefreshInterval = NULL)
    /\ [][(activeSession = NULL /\ activeSession' # NULL)
            => (startPending /\ ~startPending')]_vars

\* C4: a refresh tick of the Active session (armed by the FacultyPortal that
\* is mounted, for its anchor) whose sample succeeds stops the
\* session and reports the drift error when the sample is more than
\* MAX_FACULTY_MOVEMENT_METERS from the anchor, and otherwise (the limit
\* itself included) leaves it Active with location = sample, timestamp = now.
C4_RefreshDecision ==
    [][\A i \in 1..MaxRefreshPending, l \in FacultyPositions :
          ( /\ RefreshLocated(i, l)
            /\ activeSession # NULL
            /\ initialSessionLocation # NULL
            /\ ~refreshPending[i].orphan
            /\ refreshPending[i].anchor = initialSessionLocation )
          => IF calculateDistance(l, initialSessionLocation) > MAX_FACULTY_MOVEMENT_METERS
             THEN activeSession' = NULL /\ error' = "moved"
             ELSE /\ activeSession' = [location |-> l, timestamp |-> now]
                  /\ initialSessionLocation' = initialSessionLocation
                  /\ error' = error]_vars

\* a refreshed session whose location is exactly at the limit from the anchor
C4_Witness ==
    /\ activeSession # NULL
    /\ initialSessionLocation # NULL
    /\ activeSession.timestamp >= QR_REFRESH_INTERVAL_MS
    /\ calculateDistance(activeSession.location, initialSessionLocation)
           = MAX_FACULTY_MOVEMENT_METERS

\* C5: in every Active state the anchor recorded by startSession is present
\* and the session's location is within MAX_FACULTY_MOVEMENT_METERS of it.
C5_LocationWithinAnchor ==
    activeSession # NULL =>
        /\ initialSessionLocation # NULL
        /\ calculateDistance(activeSession.location, initialSessionLocation)
               <= MAX_FACULTY_MOVEMENT_METERS

\* C13: while the session is Idle or FacultyPortal is unmounted no location
\* refresh interval and no countdown interval is armed, and at any time each
\* display has at most one countdown interval armed (the refresh interval is
\* the one handle its effect holds).
C13_TimersFollowSession ==
    /\ (activeSession = NULL \/ ~facultyMounted) =>
           /\ locationRefreshInterval = NULL
           /\ \A d \in Displays : armedCountdowns[d] = 0
    /\ \A d \in Displays : armedCountdowns[d] <= 1

\* FacultyPortal was unmounted with its session Active and a tick of its
\* refresh interval in flight, that is after its timers had been armed
C13_Witness ==
    /\ ~facultyMounted
    /\ activeSession # NULL
    /\ \E k \in 1..Len(refreshPending) : refreshPending[k].orphan
    /\ \A d \in Displays : armedCountdowns[d] = 0 /\ ~countdownIntervalRef[d]

\* C14: every refresh of an Active session sets a timestamp strictly greater
\* than the one the session had.
C14_IssuedAtIncreases ==
    [][\A i \in 1..MaxRefreshPending, l \in FacultyPositions :
          (RefreshLocated(i, l) /\ activeSession # NULL /\ activeSession' # NULL)
          => activeSession'.timestamp > activeSession.timestamp]_vars

\* C26: in every state with an Active session and no startSession in progress
\* an anchor is recorded and the location refresh interval is armed, also
\* after the presenter signed out and a FacultyPortal was mounted again.
C26_ActiveHasAnchorAndTimer ==
    (activeSession # NULL /\ ~startPending) =>
        /\ initialSessionLocation # NULL
        /\ locationRefreshInterval # NULL

\* C28: when the sample of a tick of the mounted FacultyPortal fails while
\* the session is Active, the session, the anchor and the armed interval are
\* left as they are and only the error message is set.
C28_FailedSampleKeepsSession ==
    [][\A i \in 1..MaxRefreshPending :
          ( /\ RefreshFailed(i)
            /\ activeSession # NULL
            /\ ~refreshPending[i].orphan )
          => /\ activeSession' = activeSession
             /\ initialSessionLocation' = initialSessionLocation
             /\ locationRefreshInterval' = locationRefreshInterval
             /\ error' = "update"]_vars

\* an Active session with its anchor and its interval armed, showing the
\* message of a failed sample
C28_Witness ==
    /\ error = "update"
    /\ activeSession # NULL
    /\ initialSessionLocation # NULL
    /\ locationRefreshInterval # NULL

----------------------------------------------------------------------------
(* Attendee-side properties *)

ScanIds == 1..MaxScans

LocationPendingFor(a) ==
    \E k \in 1..Len(locationPending) : locationPending[k].attempt = a

VerifyPendingFor(a) == \E k \in 1..Len(verifyPending) : verifyPending[k].attempt = a

RecordPendingFor(a) == \E k \in 1..Len(recordPending) : recordPending[k].attempt = a

\* C12: when the scanner or FaceCapture was closed while the location sample
\* or the face match of a scan was pending, the completion of that call
\* changes no verification state and starts no write of a record.
C12_ClosedUiCancels ==
    [][\A a \in ScanIds :
          ( /\ attempts[a].closed
            /\ \/ LocationPendingFor(a) /\ ~LocationPendingFor(a)'
               \/ VerifyPendingFor(a) /\ ~VerifyPendingFor(a)' )
          => UNCHANGED <<isLoading, status, showFaceCapture, scannedSession,
                         retryAttempted, showApiKeyInput, recordPending,
                         attendance>>]_vars

\* C1: every scan attempt calls addAttendanceRecord exactly once when it
\* resolves in success and not at all when it resolves in failure or is
\* cancelled; an attempt that made the call is writing, has succeeded or had
\* its write rejected by the store, so a retry offer writes nothing.
C1_OneRecordPerSuccess ==
    \A a \in ScanIds :
        /\ attempts[a].recordCalls <= 1
        /\ attempts[a].outcome = "success" => attempts[a].recordCalls = 1
        /\ attempts[a].outcome \in {"rejected", "failed", "cancelled"}
               => attempts[a].recordCalls = 0
        /\ attempts[a].recordCalls = 1
               => \/ attempts[a].outcome \in {"success", "storeerror"}
                  \/ RecordPendingFor(a)

\* an attempt that was offered its retry and then succeeded with one record
C1_Witness ==
    \E a \in ScanIds :
        /\ attempts[a].outcome = "success"
        /\ attempts[a].retryOffers = 1
        /\ attempts[a].recordCalls = 1
        /\ Len(attendance) = 1

\* C2: at most one verification attempt is in flight: no second call of
\* handleQrScan or handleVerification is pending while one is.
C2_OneAttemptInFlight ==
    Len(locationPending) + Len(verifyPending) + Len(recordPending) <= 1

\* C6: the decision on a matcher result is accept iff match and
\* confidence >= CONFIDENCE_THRESHOLD; a retry offer iff match and
\* RETRY_CONFIDENCE_THRESHOLD <= confidence < CONFIDENCE_THRESHOLD and the
\* retry was not used, and then retryAttempted becomes true; a rejection in
\* every other case.
C6_DecisionTable ==
    [][\A i \in ScanIds, match \in BOOLEAN, confidence \in Confidences :
          VerifyResolved(i, match, confidence) =>
            LET a == verifyPending[i].attempt
                retryUsed == verifyPending[i].retryAttempted
                accept == match /\ confidence >= CONFIDENCE_THRESHOLD
                retry == /\ match
                         /\ confidence >= RETRY_CONFIDENCE_THRESHOLD
                         /\ confidence < CONFIDENCE_THRESHOLD
                         /\ ~retryUsed
                accepted == \/ Len(recordPending') = Len(recordPending) + 1
                            \/ status' = "Error: No class scheduled at this time."
                offered == /\ attempts'[a].retryOffers = attempts[a].retryOffers + 1
                           /\ showFaceCapture'
                rejected == status' \in {RejectMessage(TRUE), RejectMessage(FALSE)}
            IN  /\ accepted <=> accept
                /\ offered <=> retry
                /\ offered => retryAttempted'
                /\ rejected <=> (~accept /\ ~retry)]_vars

\* a retry offered on a result in the retry band
C6_Witness ==
    \E a \in ScanIds :
        /\ attempts[a].retryOffers = 1
        /\ retryAttempted
        /\ showFaceCapture
        /\ captureFor = a

\* C24: a matcher result is rejected with 'Face not recognized' exactly when
\* match is false, whatever the confidence and the retry state, and then no
\* retry is offered; it is rejected with 'confidence was too low' exactly
\* when match is true and the result is neither accepted nor offered a retry.
C24_RejectionNamesItsCause ==
    [][\A i \in ScanIds, match \in BOOLEAN, confidence \in Confidences :
          VerifyResolved(i, match, confidence) =>
            LET a == verifyPending[i].attempt
                retryUsed == verifyPending[i].retryAttempted
                accept == match /\ confidence >= CONFIDENCE_THRESHOLD
                retry == /\ match
                         /\ confidence >= RETRY_CONFIDENCE_THRESHOLD
                         /\ ~retryUsed
            IN  /\ status' = "Error: Face not recognized" <=> ~match
                /\ status' = "Error: Face match confidence was too low"
                       <=> (match /\ ~accept /\ ~retry)
                /\ ~match =>
                       /\ attempts'[a].retryOffers = attempts[a].retryOffers
                       /\ attempts'[a].outcome = "failed"
                       /\ ~retryAttempted']_vars

\* an attempt that reached FaceCapture was rejected as not recognized without
\* having been offered a retry
C24_Witness ==
    /\ status = "Error: Face not recognized"
    /\ \E a \in ScanIds :
          /\ attempts[a].faceCapture
          /\ attempts[a].outcome = "failed"
          /\ attempts[a].retryOffers = 0

\* C21: every addAttendanceRecord that succeeds, for an accepted verification
\* or a manual mark, appends exactly its record to the ledger and leaves the
\* records already there as they are, whether or not an equal record exists.
C21_EveryCallAddsOneRecord ==
    [][/\ \A i \in ScanIds :
            RecordAdded(i) => attendance' = Append(attendance, recordPending[i].record)
       /\ \A i \in 1..MaxLedgerSize :
            ManualMarkAdded(i) => attendance' = Append(attendance, manualPending[i])]_vars

\* the ledger holds two records of the same attendee, subject and day
C21_Witness ==
    \E j, k \in 1..Len(attendance) :
        /\ j < k
        /\ attendance[j].studentId = attendance[k].studentId
        /\ attendance[j].subject = attendance[k].subject
        /\ attendance[j].date = attendance[k].date

\* C7: within one scan attempt a retry is offered at most once.
C7_OneRetryPerAttempt ==
    \A a \in ScanIds : attempts[a].retryOffers <= 1

\* C8: a scan whose token has its fields is rejected with 'QR code has
\* expired' exactly when now - timestamp > QR_REFRESH_INTERVAL_MS + 5000, and
\* goes on to the location sample otherwise.
C8_ExpiredExactly ==
    [][\A data \in QrData(now) :
          (handleQrScan(data) /\ data.parses /\ ~FieldsMissing(data)) =>
            LET tooOld == now - data.timestamp > QR_REFRESH_INTERVAL_MS + QR_GRACE_MS
            IN  /\ status' = "Error: QR code has expired" <=> tooOld
                /\ Len(locationPending') = Len(locationPending) + 1 <=> ~tooOld]_vars

\* a token aged exactly 15000 ms is waiting for its location sample
C8_Witness ==
    \E k \in 1..Len(locationPending) :
        /\ now - locationPending[k].sessionData.timestamp = 15000
        /\ attempts[locationPending[k].attempt].age = 15000

\* C29: the freshness check bounds the age of a token only from above: a
\* token with its fields and now - timestamp <= 15000 goes on to the location
\* sample, however far its timestamp is ahead of the attendee's clock.
C29_NoLowerBoundOnAge ==
    [][\A data \in SkewedQrData(now) :
          ( /\ handleQrScan(data)
            /\ data.parses /\ ~FieldsMissing(data)
            /\ now - data.timestamp <= QR_REFRESH_INTERVAL_MS + QR_GRACE_MS )
          => /\ status' = "QR Code accepted. Verifying your location..."
             /\ locationPending' = Append(locationPending,
                    [sessionData |-> [location |-> data.location,
                                      timestamp |-> data.timestamp],
                     attempt |-> scans + 1])]_vars

\* a token issued a minute after the attendee's clock is waiting for its
\* location sample
C29_Witness ==
    \E k \in 1..Len(locationPending) :
        /\ locationPending[k].sessionData.timestamp > now
        /\ attempts[locationPending[k].attempt].tokenOk

\* C9: a located scan fails as too far exactly when the distance from the
\* sample to the token's location is greater than MAX_DISTANCE_METERS, and is
\* accepted (the token becomes scannedSession, FaceCapture opens) otherwise.
C9_TooFarExactly ==
    [][\A i \in ScanIds, l \in StudentPositions :
          QrLocated(i, l) =>
            LET sessionData == locationPending[i].sessionData
                distance == calculateDistance(l, sessionData.location)
            IN  /\ status' = "Error: You are too far away"
                       <=> distance > MAX_DISTANCE_METERS
                /\ (showFaceCapture' /\ scannedSession' = sessionData
                        /\ captureFor' = locationPending[i].attempt)
                       <=> distance <= MAX_DISTANCE_METERS]_vars

\* an attendee exactly 50 m from the token's location reached face capture
C9_Witness ==
    \E a \in ScanIds :
        /\ attempts[a].near
        /\ attempts[a].distance = 50
        /\ attempts[a].faceCapture

\* C10: FaceCapture, the matcher and the record write are reached only by a
\* scan whose token was well-formed and fresh and whose location sample was
\* within the limit, the sample being taken only for such a token; a scan
\* rejected by one of these checks has reached none of them and has no call
\* pending.
C10_StepsGated ==
    \A a \in ScanIds :
        /\ attempts[a].near => attempts[a].tokenOk
        /\ LocationPendingFor(a) => attempts[a].tokenOk
        /\ ( \/ attempts[a].faceCapture
             \/ VerifyPendingFor(a)
             \/ RecordPendingFor(a)
             \/ attempts[a].recordCalls > 0
             \/ attempts[a].retryOffers > 0
             \/ attempts[a].outcome \in {"failed", "cancelled", "success", "storeerror"} )
               => attempts[a].tokenOk /\ attempts[a].near
        /\ attempts[a].outcome = "rejected"
               => /\ ~attempts[a].faceCapture
                  /\ attempts[a].recordCalls = 0
                  /\ ~LocationPendingFor(a)
                  /\ ~VerifyPendingFor(a)
                  /\ ~RecordPendingFor(a)

\* one scan was stopped by a token or location check, another reached the matcher
C10_Witness ==
    \E a, b \in ScanIds :
        /\ attempts[a].outcome = "rejected"
        /\ VerifyPendingFor(b)

----------------------------------------------------------------------------
(* Schedule properties *)

\* no two entries of one day have overlapping [start, start + duration)
NoOverlap(tt) ==
    \A j, k \in 1..Len(tt) :
        (j < k /\ tt[j].day = tt[k].day) =>
            ~ ( /\ TimeValue(tt[j].time) < TimeValue(tt[k].time) + Duration(tt[k])
                /\ TimeValue(tt[k].time) < TimeValue(tt[j].time) + Duration(tt[j]) )

\* the entries of the day of instant t with start <= t < end
InSessionAt(tt, t) ==
    {k \in 1..Len(tt) :
        /\ tt[k].day = DAYS_OF_WEEK[getDay(t) + 1]
        /\ TimeValue(tt[k].time) <= getHours(t) * 60 + getMinutes(t)
        /\ getHours(t) * 60 + getMinutes(t) < TimeValue(tt[k].time) + Duration(tt[k])}

\* minutes from instant t to the next start of an entry strictly after t
MinutesUntil(entry, t) ==
    LET days == ((IndexOf(DAYS_OF_WEEK, entry.day) - 1) - getDay(t) + 7) % 7
        delta == days * 24 * 60 + TimeValue(entry.time)
                     - (getHours(t) * 60 + getMinutes(t))
    IN  IF delta > 0 THEN delta ELSE delta + 7 * 24 * 60

\* C11: for a timetable without same-day overlaps, the class that
\* handleVerification resolves on accept is the entry getScheduleStatus
\* reports as currentClassId at the same instant, and there is no class for
\* the one exactly when currentClassId is null.
C11_ResolvedIsCurrent ==
    (resolvedAt >= 0 /\ resolvedAt = statusAt /\ NoOverlap(timetable)) =>
        IF scheduleStatus.currentClassId = NULL_ID
        THEN resolvedClass = NULL
        ELSE /\ resolvedClass # NULL
             /\ resolvedClass.id = scheduleStatus.currentClassId

InSessionWithDefault(tt, t) ==
    {k \in 1..Len(tt) :
        LET start == TimeValue(tt[k].time)
            minutes == IF tt[k].duration > 0 THEN tt[k].duration
                       ELSE DEFAULT_CLASS_DURATION_MINS
            nowTimeValue == getHours(t) * 60 + getMinutes(t)
        IN  /\ tt[k].day = DAYS_OF_WEEK[getDay(t) + 1]
            /\ start <= nowTimeValue
            /\ nowTimeValue < start + minutes}

\* C25: an entry whose duration is absent or invalid (zero or negative here)
\* is in session from its start for DEFAULT_CLASS_DURATION_MINS minutes, for
\* getScheduleStatus and for the lookup of handleVerification alike.
C25_DefaultDuration ==
    /\ statusAt >= 0 =>
          \A k \in 1..Len(timetable) :
              k \in InSessionWithDefault(timetable, statusAt)
                  <=> scheduleStatus.currentClassId = timetable[k].id
    /\ resolvedAt >= 0 =>
          \A k \in InSessionWithDefault(timetable, resolvedAt) :
              resolvedClass = timetable[k]

\* C15: for a timetable without same-day overlaps at most one entry of the
\* day is in session (start <= now < end), and getScheduleStatus returns its
\* id as currentClassId, or null when there is none.
C15_CurrentClassUnique ==
    (statusAt >= 0 /\ NoOverlap(timetable)) =>
        LET cur == InSessionAt(timetable, statusAt)
        IN  /\ Cardinality(cur) <= 1
            /\ scheduleStatus.currentClassId =
                   IF cur = {} THEN NULL_ID
                   ELSE timetable[CHOOSE k \in cur : TRUE].id

\* the second of two back-to-back classes is current at the minute it starts
C15_Witness ==
    /\ statusAt = At(1, 9, 45)
    /\ NoOverlap(timetable)
    /\ Len(timetable) >= 2
    /\ timetable[1].id = "a"
    /\ scheduleStatus.currentClassId = "b"

\* C16: nextClassId is an entry whose start is the nearest strictly after
\* now in the rolling 7-day window (later today, else the earliest entry of
\* the first following day that has entries, the same weekday a week later
\* included); it is null only when the timetable is empty.
C16_NextIsNearest ==
    statusAt >= 0 =>
        IF Len(timetable) = 0
        THEN scheduleStatus.nextClassId = NULL_ID
        ELSE \E k \in 1..Len(timetable) :
                /\ timetable[k].id = scheduleStatus.nextClassId
                /\ \A j \in 1..Len(timetable) :
                      MinutesUntil(timetable[k], statusAt)
                          <= MinutesUntil(timetable[j], statusAt)

\* after the last class of the only day with classes, the next class is the
\* first one of the same weekday a week later
C16_Witness ==
    /\ statusAt = At(1, 10, 30)
    /\ Len(timetable) >= 2
    /\ \A k \in 1..Len(timetable) : timetable[k].day = "Monday"
    /\ scheduleStatus.nextClassId = "a"

----------------------------------------------------------------------------
(* Ledger properties *)

\* C18: deleteAllAttendanceRecords settles, fulfilled or rejected, only
\* after every batch commit it issued has settled.
C18_SettlesAfterAllBatches ==
    purge.state \in {"resolved", "rejected"} =>
        \A b \in 1..Len(purge.batches) : purge.batches[b].state # "pending"

\* C19: once every batch of a purge has settled, the documents of the
\* committed batches are gone from the ledger whatever happened to the other
\* batches, and the failure the purge reports names every batch that failed.
C19_FailuresReportedPerBatch ==
    ( /\ Len(purge.batches) > 0
      /\ \A b \in 1..Len(purge.batches) : purge.batches[b].state # "pending" ) =>
        /\ \A b \in 1..Len(purge.batches) :
              purge.batches[b].state = "committed" =>
                  \A k \in 1..Len(attendance) :
                      attendance[k].id \notin purge.batches[b].ids
        /\ {b \in 1..Len(purge.batches) : purge.batches[b].state = "failed"}
               = IF purge.rejectedBy = 0 THEN {} ELSE {purge.rejectedBy}

\* C23: the purge puts each record of the ledger it read whose subject is
\* among the presenter's subjects in exactly one batch, every batch holds at
\* most BATCH_SIZE records, there are ceil(n / BATCH_SIZE) batches and none
\* when nothing matches; a committed batch removes its records and no other.
C23_PurgeBatches ==
    [][/\ PurgeFetched =>
            LET matching == {attendance[k].id : k \in
                               {j \in 1..Len(attendance) :
                                   attendance[j].subject \in purge.subjects}}
                n == Cardinality(matching)
                batches == purge'.batches
                Size(b) == Cardinality(batches[b].ids)
            IN  /\ UNION {batches[b].ids : b \in 1..Len(batches)} = matching
                /\ \A b, c \in 1..Len(batches) :
                       b # c => batches[b].ids \cap batches[c].ids = {}
                /\ \A b \in 1..Len(batches) : Size(b) >= 1 /\ Size(b) <= BATCH_SIZE
                /\ Len(batches) * BATCH_SIZE >= n
                /\ (Len(batches) - 1) * BATCH_SIZE < n \/ n = 0
                /\ n = 0 => batches = <<>> /\ purge'.state = "resolved"
                /\ attendance' = attendance
       /\ \A b \in 1..Len(purge.batches) :
            BatchCommitted(b) =>
                /\ \A k \in 1..Len(attendance') :
                       attendance'[k].id \notin purge.batches[b].ids
                /\ attendance' = SelectSeq(attendance,
                       LAMBDA r : r.id \notin purge.batches[b].ids)
                /\ \A k \in 1..Len(attendance) :
                       attendance[k].subject \notin purge.subjects
                           => \E j \in 1..Len(attendance') :
                                 attendance'[j] = attendance[k]]_vars

\* a purge of 1,200 matching records in a ledger of 1,400 has committed its
\* three batches and left the 200 records of other subjects
C23_Witness ==
    /\ purge.state = "resolved"
    /\ Len(purge.batches) = 3
    /\ \A b \in 1..Len(purge.batches) : purge.batches[b].state = "committed"
    /\ Len(attendance) = 200
    /\ \A k \in 1..Len(attendance) : attendance[k].subject \notin purge.subjects

\* C20: deleteMultipleAttendanceRecords with an empty id list returns at
\* once without an error, creates and commits no batch and leaves the ledger
\* as it is, in every state.
C20_DeleteNoneIsNoOp ==
    [][deleteMultipleAttendanceRecords({}) =>
          /\ deleteMany'.state = "resolved"
          /\ deleteMany'.batches = 0
          /\ attendance' = attendance]_vars

\* an empty deleteMany returned while a purge was committing its batches
C20_Witness ==
    /\ deleteMany.state = "resolved"
    /\ deleteMany.ids = {}
    /\ purge.state = "committing"
    /\ Len(attendance) > 0

----------------------------------------------------------------------------
(* Timetable properties *)

\* C17: whatever add and edit submissions the presenters of a department
\* make, and however they interleave with the timetable snapshots, no two
\* documents of one day in the 'timetable' collection overlap.
C17_NoOverlapInStore == NoOverlap(sortTimetable(timetableDocs))

----------------------------------------------------------------------------
(* AppProvider properties *)

\* C22: a permission-denied error of the listener of one feed (timetable,
\* students, attendance) sets the error field of that feed and leaves the
\* error fields of the other feeds, the data of every feed and systemError
\* as they were.
C22_DeniedFeedScoped ==
    [][\A feed \in Feeds :
          handleSnapshotError("permission-denied", feed) =>
              /\ errors'.systemError = errors.systemError
              /\ feedData' = feedData
              /\ feed = "timetable" =>
                     /\ errors'.timetableError # NULL_ID
                     /\ errors'.studentsError = errors.studentsError
                     /\ errors'.attendanceError = errors.attendanceError
              /\ feed = "students" =>
                     /\ errors'.studentsError # NULL_ID
                     /\ errors'.timetableError = errors.timetableError
                     /\ errors'.attendanceError = errors.attendanceError
              /\ feed = "attendance" =>
                     /\ errors'.attendanceError # NULL_ID
                     /\ errors'.timetableError = errors.timetableError
                     /\ errors'.studentsError = errors.studentsError]_vars

\* the timetable feed was denied while the roster feed delivers: only
\* timetableError is set and the roster is shown
C22_Witness ==
    /\ errors.timetableError # NULL_ID
    /\ errors.studentsError = NULL_ID
    /\ errors.attendanceError = NULL_ID
    /\ errors.systemError = NULL_ID
    /\ "timetable" \notin listeners
    /\ "students" \in listeners
    /\ feedData["students"] = 1

\* C27: whenever no user is signed in and no auth callback awaits a getDoc,
\* userRole, currentStudent and currentFaculty are all null, also after a
\* sign-out that arrived while the getDoc of an earlier sign-in was pending.
C27_SignedOutHasNoProfile ==
    (currentUser = NULL_ID /\ authCallbacks = <<>>) =>
        /\ userRole = NULL_ID
        /\ currentStudent = NULL_ID
        /\ currentFaculty = NULL_ID

====
